---- MODULE Spec2Model ----
(***************************************************************************)
(* A model of the TickTick MCP server: the credential resolver that runs   *)
(* at import time (config._load_env_vars), the two process-wide session    *)
(* singletons (config.get_ticktick_client, config.get_unofficial_client),  *)
(* the official REST client (ticktick_client.TickTickClient) and the tool  *)
(* functions built on both clients (tools/*.py).                           *)
(*                                                                         *)
(* Python's None is the string None below; a dict is a function whose      *)
(* DOMAIN is its key set, so a partial record is a function with fewer     *)
(* keys.                                                                   *)
(***************************************************************************)
EXTENDS Integers, Sequences, FiniteSets, TLC

VARIABLES
    \* ---- process and its environment (config.py)
    phase,                          \* "boot" | "serving" | "exited"
    exitCode,                       \* sys.exit status, -1 while running
    env,                            \* os.environ, restricted to the keys read
    dotenvFile,                     \* CONFIG_DIR/.env
    tokenCacheFile,                 \* CONFIG_DIR/.token-cache.json
    oauthCacheFile,                 \* the files at the two .token-oauth paths
    bootTime,                       \* time.time() read by _load_env_vars
    CLIENT_ID, CLIENT_SECRET, REDIRECT_URI, ACCESS_TOKEN, USER_ID,
    USERNAME, PASSWORD, IS_CLOUD_DEPLOYMENT, UNOFFICIAL_TOKEN_CACHE_PATH,
    \* ---- session singletons
    _unofficial_client_initialized, \* config.py:80
    _unofficial_client,             \* unofficial_client.py:572, 0 is None
    uclients,                       \* heap of TickTickUnofficialClient objects
    _client,                        \* ticktick_client.py:499, 0 is None
    oclients,                       \* heap of TickTickClient objects
    co,                             \* the coroutines serving tool invocations
    \* ---- vendor data and the tool layer
    store,                          \* vendor's task records, by task id
    call                            \* the last tool invocation and what it sent

cfgVars == <<CLIENT_ID, CLIENT_SECRET, REDIRECT_URI, ACCESS_TOKEN, USER_ID,
             USERNAME, PASSWORD, IS_CLOUD_DEPLOYMENT, UNOFFICIAL_TOKEN_CACHE_PATH>>
bootVars == <<phase, exitCode, env, dotenvFile, bootTime>>
fileVars == <<tokenCacheFile, oauthCacheFile>>
unoffVars == <<_unofficial_client_initialized, _unofficial_client, uclients>>
offVars == <<_client, oclients>>
toolVars == <<store, call>>
vars == <<bootVars, fileVars, cfgVars, unoffVars, offVars, co, toolVars>>

None == "None"

\* Python truthiness of an optional string: `if x`, `not x`, all([...]).
Truthy(v) == v # None /\ v # ""

\* d[k] = v on a dict: adds the key when it is missing.
DictSet(d, k, v) == [f \in (DOMAIN d) \cup {k} |-> IF f = k THEN v ELSE d[f]]

\* d.get(k, default)
DictGet(d, k, default) == IF k \in DOMAIN d THEN d[k] ELSE default

\* {**a, **b}: the keys of both, b winning.
DictMerge(a, b) == [f \in (DOMAIN a) \cup (DOMAIN b) |-> IF f \in DOMAIN b THEN b[f] ELSE a[f]]

-----------------------------------------------------------------------------
(***************************************************************************)
(* Credential resolver: config._load_env_vars, run once on import.         *)
(***************************************************************************)

OAuthKeys == {"TICKTICK_CLIENT_ID", "TICKTICK_CLIENT_SECRET", "TICKTICK_REDIRECT_URI"}
EnvKeys == OAuthKeys \cup {"TICKTICK_ACCESS_TOKEN", "TICKTICK_OAUTH_TOKEN",
                           "TICKTICK_USER_ID", "TICKTICK_USERNAME", "TICKTICK_PASSWORD"}

HOME_TOKEN_OAUTH == "~/.config/ticktick-mcp/.token-oauth"
TMP_TOKEN_OAUTH == "/tmp/.token-oauth"
OAuthCachePaths == {HOME_TOKEN_OAUTH, TMP_TOKEN_OAUTH}

DEFAULT_EXPIRES_IN == 15552000

\* json.loads on the texts the model uses.  ok = FALSE is JSONDecodeError;
\* a missing key is None (access_token) or -1 (expires_in).  "json:[1]" is
\* JSON that parses to a list, not to an object.
JsonLoads(text) ==
    CASE text = "json:tokB+100" -> [ok |-> TRUE, access_token |-> "tokB", expires_in |-> 100]
      [] text = "json:[1]" -> [ok |-> TRUE, access_token |-> None, expires_in |-> -1]
      [] text = "json:tokB" -> [ok |-> TRUE, access_token |-> "tokB", expires_in |-> -1]
      [] text = "json:100" -> [ok |-> TRUE, access_token |-> None, expires_in |-> 100]
      [] text = "json:tokC" -> [ok |-> TRUE, access_token |-> "tokC", expires_in |-> -1]
      [] OTHER -> [ok |-> FALSE, access_token |-> None, expires_in |-> -1]

NoFile == [exists |-> FALSE, access_token |-> None, expires_in |-> -1, expire_time |-> -1]

\* os.getenv
Getenv(e, k) == e[k]

\* load_dotenv(override=True, dotenv_path=...): every key of the file is put in
\* os.environ, replacing a value already there; True iff the file set a variable.
LoadDotenv(e, file) == [k \in EnvKeys |-> IF file.vars[k] # None THEN file.vars[k] ELSE e[k]]
DotenvLoaded(file) == \E k \in EnvKeys : file.vars[k] # None

\* config.py:98  `if not all([client_id, client_secret, redirect_uri])`
EnvIncomplete(e) == \E k \in OAuthKeys : ~Truthy(Getenv(e, k))

\* config.py:98-133: the environment after the optional dotenv fallback, or a
\* fatal exit (missing file, or a file that set nothing).
DotenvFatal(e, file) == EnvIncomplete(e) /\ (~file.exists \/ ~DotenvLoaded(file))
EnvAfterDotenv(e, file) ==
    IF EnvIncomplete(e) /\ file.exists THEN LoadDotenv(e, file) ELSE e

\* A variant of the validation that forgets the redirect URI.
MissingOAuthIdAndSecretOnly(e) ==
    ~Truthy(Getenv(e, "TICKTICK_CLIENT_ID")) \/ ~Truthy(Getenv(e, "TICKTICK_CLIENT_SECRET"))

\* config.py:138  `if not client_id or not client_secret or not redirect_uri`
MissingOAuth(e) == \E k \in OAuthKeys : ~Truthy(Getenv(e, k))

\* config.py:147-182: ACCESS_TOKEN from the direct variable, else the blob, else
\* the local token cache.
TokenAfterBlob(e) ==
    LET direct == Getenv(e, "TICKTICK_ACCESS_TOKEN")
        blob == Getenv(e, "TICKTICK_OAUTH_TOKEN")
    IN  IF Truthy(blob) /\ JsonLoads(blob).ok /\ ~Truthy(direct)
        THEN JsonLoads(blob).access_token
        ELSE direct
ResolveAccessToken(e, cache) ==
    LET t == TokenAfterBlob(e)
    IN  IF ~Truthy(t) /\ cache.exists /\ cache.ok THEN cache.access_token ELSE t

\* config.py:160-161: `token_data["expire_time"] = ... token_data.get(...)` on
\* a parsed blob that is not a dict raises TypeError or AttributeError, which
\* `except json.JSONDecodeError` does not catch: the import fails.
BlobRaises(e) ==
    Truthy(Getenv(e, "TICKTICK_OAUTH_TOKEN")) /\ Getenv(e, "TICKTICK_OAUTH_TOKEN") = "json:[1]"

\* config.py:152-155
CloudDeployment(e) == Truthy(Getenv(e, "TICKTICK_OAUTH_TOKEN"))
CachePathFor(e) == IF CloudDeployment(e) THEN TMP_TOKEN_OAUTH ELSE HOME_TOKEN_OAUTH

\* config.py:159-163: the blob, with expire_time added, written to the cloud cache.
BlobCacheFile(e, now) ==
    LET j == JsonLoads(Getenv(e, "TICKTICK_OAUTH_TOKEN"))
    IN  [exists |-> TRUE, access_token |-> j.access_token, expires_in |-> j.expires_in,
         expire_time |-> now + (IF j.expires_in = -1 THEN DEFAULT_EXPIRES_IN ELSE j.expires_in)]

_load_env_vars ==
    /\ phase = "boot"
    /\ LET e == EnvAfterDotenv(env, dotenvFile)
       IN  IF DotenvFatal(env, dotenvFile) \/ MissingOAuth(e)
           THEN /\ phase' = "exited"
                /\ exitCode' = 1
                /\ env' = e
                /\ UNCHANGED <<cfgVars, oauthCacheFile>>
           ELSE IF BlobRaises(e)
           THEN /\ phase' = "exited"
                /\ exitCode' = 1
                /\ env' = e
                /\ CLIENT_ID' = Getenv(e, "TICKTICK_CLIENT_ID")
                /\ CLIENT_SECRET' = Getenv(e, "TICKTICK_CLIENT_SECRET")
                /\ REDIRECT_URI' = Getenv(e, "TICKTICK_REDIRECT_URI")
                /\ IS_CLOUD_DEPLOYMENT' = TRUE
                /\ UNOFFICIAL_TOKEN_CACHE_PATH' = TMP_TOKEN_OAUTH
                /\ UNCHANGED <<ACCESS_TOKEN, USER_ID, USERNAME, PASSWORD, oauthCacheFile>>
           ELSE /\ phase' = "serving"
                /\ env' = e
                /\ UNCHANGED exitCode
                /\ CLIENT_ID' = Getenv(e, "TICKTICK_CLIENT_ID")
                /\ CLIENT_SECRET' = Getenv(e, "TICKTICK_CLIENT_SECRET")
                /\ REDIRECT_URI' = Getenv(e, "TICKTICK_REDIRECT_URI")
                /\ ACCESS_TOKEN' = ResolveAccessToken(e, tokenCacheFile)
                /\ USER_ID' = Getenv(e, "TICKTICK_USER_ID")
                /\ USERNAME' = Getenv(e, "TICKTICK_USERNAME")
                /\ PASSWORD' = Getenv(e, "TICKTICK_PASSWORD")
                /\ IS_CLOUD_DEPLOYMENT' = CloudDeployment(e)
                /\ UNOFFICIAL_TOKEN_CACHE_PATH' = CachePathFor(e)
                /\ oauthCacheFile' =
                     IF CloudDeployment(e) /\ JsonLoads(Getenv(e, "TICKTICK_OAUTH_TOKEN")).ok
                     THEN [oauthCacheFile EXCEPT ![TMP_TOKEN_OAUTH] = BlobCacheFile(e, bootTime)]
                     ELSE oauthCacheFile
    /\ UNCHANGED <<dotenvFile, bootTime, tokenCacheFile, unoffVars, offVars, co, toolVars>>

-----------------------------------------------------------------------------
(***************************************************************************)
(* Session singletons.  Objects live in two heaps (sequences); a reference *)
(* is an index, 0 is None.   Each coroutine of Procs serves one tool        *)
(* invocation at a time; the event loop interleaves coroutines at awaits.  *)
(***************************************************************************)

Procs == {1, 2}
MaxUnofficialClients == 3     \* unofficial client objects constructed in a run

Idle == [pc |-> "idle", tool |-> "none", obj |-> 0, ret |-> "none", sent |-> FALSE]

\* ---- official session (ticktick_client.py:498-520, config.py:225-253)

\* The official heap has a slot for every object that can be referenced at
\* once: the global _client and one per coroutine.  An object no reference
\* reaches is collected and its slot reused; a new object never takes the slot
\* of one still referenced, so two references are equal iff they name the
\* same instance.
OfficialSlots == 1 .. (Cardinality(Procs) + 2)
FreeSlot == [access_token |-> None, user_id |-> None]
LiveOfficial == {_client} \cup {co[p].obj : p \in {q \in Procs : co[q].pc = "official"}}
FreshOfficial == CHOOSE i \in OfficialSlots \ LiveOfficial :
                    \A j \in OfficialSlots \ LiveOfficial : i <= j

\* TickTickClient.__init__
NewTickTickClient(access_token, user_id) ==
    [access_token |-> access_token, user_id |-> user_id]

\* What the collector leaves of the heap `oc` when `live` are the references
\* still held.
Collect(oc, live) == [i \in OfficialSlots |-> IF i \in live THEN oc[i] ELSE FreeSlot]

\* A variant that updates the fields of the existing object instead of
\* constructing a new one.
InitTicktickClientInPlace(access_token, user_id) ==
    /\ oclients' = [oclients EXCEPT ![IF _client = 0 THEN FreshOfficial ELSE _client] =
                       NewTickTickClient(access_token, user_id)]
    /\ _client' = IF _client = 0 THEN FreshOfficial ELSE _client

\* init_ticktick_client: `_client = TickTickClient(...)`; `return _client`.
\* The reference it stores in the global and returns; the object the global
\* named before is dropped unless a coroutine still holds it.
InitTicktickClientRef == FreshOfficial
init_ticktick_client(access_token, user_id) ==
    /\ oclients' = Collect([oclients EXCEPT ![FreshOfficial] = NewTickTickClient(access_token, user_id)],
                           (LiveOfficial \ {_client}) \cup {FreshOfficial}
                              \cup {co[p].obj : p \in {q \in Procs : co[q].pc = "official" /\ co[q].obj = _client}})
    /\ _client' = InitTicktickClientRef

\* A variant that looks at the environment variable instead of the global.
NoAccessTokenInEnv == ~Truthy(env["TICKTICK_ACCESS_TOKEN"])

\* config.get_ticktick_client, `if not ACCESS_TOKEN: return None`
NoAccessToken == ~Truthy(ACCESS_TOKEN)

\* TickTickClient._request, by the kind of answer the vendor gives:
\*   "json" 2xx with a JSON body, "empty" 204 or no content, "http_error" a
\*   status >= 400, "network_error" httpx.RequestError (timeouts included),
\*   "bad_json" 2xx whose body response.json() cannot parse.
\* Result: "value" (parsed body), "none", "api_error" (TickTickAPIError raised)
\* or "raise" (an exception that is not TickTickAPIError leaves _request).
RespKinds == {"json", "empty", "http_error", "network_error", "bad_json"}
OfficialRequest(resp) ==
    CASE resp = "http_error" -> "api_error"
      [] resp = "network_error" -> "api_error"
      [] resp = "empty" -> "none"
      [] resp = "bad_json" -> "raise"
      [] OTHER -> "value"

\* config.save_tokens, called by the /oauth/callback route once the vendor
\* has answered the code exchange with an access token.  _save_token_cache
\* logs and ignores an IOError.
Tokens == {"tokD"}

\* A variant that also resets the deployment mode and the cache path to the
\* local defaults.
SaveTokensResettingMode ==
    /\ phase = "serving"
    /\ \E t \in Tokens, wrote \in BOOLEAN :
         /\ ACCESS_TOKEN' = t
         /\ tokenCacheFile' = IF wrote THEN [exists |-> TRUE, ok |-> TRUE, access_token |-> t]
                              ELSE tokenCacheFile
         /\ init_ticktick_client(t, USER_ID)
    /\ IS_CLOUD_DEPLOYMENT' = FALSE
    /\ UNOFFICIAL_TOKEN_CACHE_PATH' = HOME_TOKEN_OAUTH
    /\ UNCHANGED <<bootVars, oauthCacheFile, CLIENT_ID, CLIENT_SECRET, REDIRECT_URI, USER_ID,
                   USERNAME, PASSWORD, unoffVars, co, toolVars>>

save_tokens ==
    /\ phase = "serving"
    /\ \E t \in Tokens, wrote \in BOOLEAN :
         /\ ACCESS_TOKEN' = t
         /\ tokenCacheFile' = IF wrote THEN [exists |-> TRUE, ok |-> TRUE, access_token |-> t]
                              ELSE tokenCacheFile
         /\ init_ticktick_client(t, USER_ID)
    /\ UNCHANGED <<bootVars, oauthCacheFile, CLIENT_ID, CLIENT_SECRET, REDIRECT_URI, USER_ID,
                   USERNAME, PASSWORD, IS_CLOUD_DEPLOYMENT, UNOFFICIAL_TOKEN_CACHE_PATH,
                   unoffVars, co, toolVars>>

\* ---- official tools (tools/task_tools.py, tools/project_tools.py)

\* TickTickClient.inbox_id: f"inbox{user_id}" when user_id is set, else None.
InboxId(ref) == IF Truthy(oclients[ref].user_id) THEN "inbox" \o oclients[ref].user_id ELSE None

\* A tool that makes one request, by what it does with _request's result:
\*   "format"   passes it to _format_task (ticktick_get_task),
\*   "ignore"   drops it (ticktick_complete_task),
\*   "or_empty" uses `result if result else []` (ticktick_list_projects).
\* The tool's only handler is `except TickTickAPIError`.
OfficialTools == {"ticktick_get_task", "ticktick_complete_task", "ticktick_list_projects",
                  "ticktick_get_all_tasks"}
ResultUse(tool) ==
    CASE tool = "ticktick_get_task" -> "format"
      [] tool = "ticktick_complete_task" -> "ignore"
      [] OTHER -> "or_empty"
OneRequestTool(use, resp) ==
    CASE OfficialRequest(resp) = "api_error" -> "error"
      [] OfficialRequest(resp) = "raise" -> "exception"
      [] OfficialRequest(resp) = "none" /\ use = "format" -> "exception"
      [] OTHER -> "success"

\* get_project_with_data inside get_all_tasks' try: TickTickAPIError is logged
\* and skipped; `data.get("tasks", [])` on None raises AttributeError.
ProjectDataStep(resp) ==
    CASE OfficialRequest(resp) = "api_error" -> "skipped"
      [] OfficialRequest(resp) = "value" -> "extended"
      [] OTHER -> "exception"

\* ticktick_get_all_tasks over TickTickClient.get_all_tasks, for the answers to
\* the Inbox fetch, the project listing and the data fetch of the one listed
\* project.
GetAllTasksTool(ref, rInbox, rProjects, rData) ==
    IF InboxId(ref) # None /\ ProjectDataStep(rInbox) = "exception" THEN "exception"
    ELSE CASE OfficialRequest(rProjects) = "api_error" -> "error"
           [] OfficialRequest(rProjects) = "raise" -> "exception"
           [] OfficialRequest(rProjects) = "none" -> "success"
           [] OTHER -> IF ProjectDataStep(rData) = "exception" THEN "exception" ELSE "success"

OfficialToolResult(tool, ref, rInbox, r, rData) ==
    IF tool = "ticktick_get_all_tasks" THEN GetAllTasksTool(ref, rInbox, r, rData)
    ELSE OneRequestTool(ResultUse(tool), r)

\* The answers to the further requests of a tool that makes more than one.
AlsoAnswered(tool) == IF tool = "ticktick_get_all_tasks" THEN RespKinds ELSE {"json"}

\* An official tool invocation up to its first await: get_ticktick_client,
\* then the client method is entered.
official_tool_call(p) ==
    /\ phase = "serving"
    /\ co[p].pc = "idle"
    /\ \E tool \in OfficialTools :
         IF NoAccessToken
         THEN /\ co' = [co EXCEPT ![p] = [Idle EXCEPT !.tool = tool, !.ret = "error_not_authenticated"]]
              /\ UNCHANGED offVars
         ELSE /\ init_ticktick_client(ACCESS_TOKEN, USER_ID)
              /\ co' = [co EXCEPT ![p] = [Idle EXCEPT !.pc = "official", !.tool = tool,
                                                      !.obj = InitTicktickClientRef, !.sent = TRUE]]
    /\ UNCHANGED <<bootVars, fileVars, cfgVars, unoffVars, toolVars>>

\* The vendor answers and the tool returns, or an exception leaves it; the
\* coroutine's reference to its client goes with it.
official_tool_returns(p) ==
    /\ co[p].pc = "official"
    /\ \E r \in RespKinds :
       \E rInbox \in AlsoAnswered(co[p].tool), rData \in AlsoAnswered(co[p].tool) :
         co' = [co EXCEPT ![p] =
                  [Idle EXCEPT !.tool = co[p].tool, !.sent = TRUE,
                               !.ret = OfficialToolResult(co[p].tool, co[p].obj, rInbox, r, rData)]]
    /\ oclients' = Collect(oclients, {_client} \cup {co[q].obj : q \in {x \in Procs \ {p} : co[x].pc = "official"}})
    /\ UNCHANGED <<bootVars, fileVars, cfgVars, unoffVars, _client, toolVars>>

\* ---- unofficial session (config.py:256-322, unofficial_client.py:76-260, 571-626)

\* A variant of the credentials check that looks at the username alone.
CredentialsMissingUsernameOnly == ~Truthy(USERNAME)

\* config.py:277  `if not USERNAME or not PASSWORD: return None`
CredentialsMissing == ~Truthy(USERNAME) \/ ~Truthy(PASSWORD)

\* TickTickUnofficialClient.is_authenticated on a reference
IsAuthenticated(ref) == ref # 0 /\ uclients[ref].authenticated

\* A variant of the lookup that never takes the early return.
ExistingNeverReturned == FALSE

\* config.py:286  `if existing and existing.is_authenticated: return existing`
ExistingAuthenticated == IsAuthenticated(_unofficial_client)

\* TickTickUnofficialClient._write_token_cache (unofficial_client.py:133-174)
WriteTokenCache(access_token, now) ==
    [exists |-> TRUE, access_token |-> access_token, expires_in |-> DEFAULT_EXPIRES_IN,
     expire_time |-> now + DEFAULT_EXPIRES_IN]

\* TickTickUnofficialClient.__init__: the new object, and the cache file it
\* pre-populates when an access token is passed.
NewUnofficialClient == [authenticated |-> FALSE, attempts |-> 0, login |-> "none"]
CacheAfterInit(now) ==
    IF Truthy(ACCESS_TOKEN)
    THEN [oauthCacheFile EXCEPT ![UNOFFICIAL_TOKEN_CACHE_PATH] = WriteTokenCache(ACCESS_TOKEN, now)]
    ELSE oauthCacheFile

\* tools/unofficial_tools._get_api_client and the tool's `except Exception`:
\* what a tool returns once the client lookup has given `ref`, for the vendor's
\* answer `ok` to the one request it makes.  `ref` = 0 raises RuntimeError
\* ("Unofficial API not configured ..."); a client that is not authenticated
\* raises in _sync_request before anything is sent.
ToolReturn(ref, ok) ==
    CASE ref = 0 -> "error_not_configured"
      [] ~IsAuthenticated(ref) -> "error_not_authenticated"
      [] ok -> "success"
      [] OTHER -> "error_request_failed"
ToolSends(ref) == IsAuthenticated(ref)

\* A tool's client lookup.  The tools import get_client from
\* ticktick_mcp.unofficial_client; the lookup is the lazily initialising
\* config.get_unofficial_client.
get_client(ref) == ref

\* An unofficial tool invocation up to its first suspension: the whole of
\* get_unofficial_client unless it has to initialise, and then up to the
\* `await asyncio.to_thread(self._sync_login, ...)` inside login().
unofficial_tool_call(p) ==
    /\ phase = "serving"
    /\ co[p].pc = "idle"
    /\ \E ok \in BOOLEAN, now \in {bootTime, bootTime + 5} :
         IF CredentialsMissing
         THEN /\ co' = [co EXCEPT ![p] = [Idle EXCEPT !.ret = ToolReturn(get_client(0), ok)]]
              /\ UNCHANGED <<unoffVars, oauthCacheFile>>
         ELSE IF ExistingAuthenticated
         THEN /\ co' = [co EXCEPT ![p] =
                          [Idle EXCEPT !.obj = get_client(_unofficial_client),
                                       !.ret = ToolReturn(get_client(_unofficial_client), ok),
                                       !.sent = ToolSends(get_client(_unofficial_client))]]
              /\ UNCHANGED <<unoffVars, oauthCacheFile>>
         ELSE IF ~_unofficial_client_initialized
         THEN /\ Len(uclients) < MaxUnofficialClients
              /\ uclients' = Append(uclients, [NewUnofficialClient EXCEPT !.login = "pending"])
              /\ _unofficial_client' = Len(uclients')
              /\ oauthCacheFile' = CacheAfterInit(now)
              /\ co' = [co EXCEPT ![p] = [Idle EXCEPT !.pc = "login", !.obj = Len(uclients')]]
              /\ UNCHANGED _unofficial_client_initialized
         ELSE /\ co' = [co EXCEPT ![p] =
                          [Idle EXCEPT !.obj = get_client(_unofficial_client),
                                       !.ret = ToolReturn(get_client(_unofficial_client), ok),
                                       !.sent = ToolSends(get_client(_unofficial_client))]]
              /\ UNCHANGED <<unoffVars, oauthCacheFile>>
    /\ UNCHANGED <<bootVars, tokenCacheFile, cfgVars, offVars, toolVars>>

\* _sync_login in its worker thread: one login against the vendor, which
\* succeeds (self._ticktick_client is set) or raises.
_sync_login(p) ==
    /\ co[p].pc = "login"
    /\ \E ok \in BOOLEAN :
         /\ uclients' = [uclients EXCEPT ![co[p].obj] =
                           [authenticated |-> ok,
                            attempts |-> @.attempts + 1,
                            login |-> IF ok THEN "ok" ELSE "failed"]]
         /\ co' = [co EXCEPT ![p].pc = "resume"]
    /\ UNCHANGED <<bootVars, fileVars, cfgVars, _unofficial_client_initialized,
                   _unofficial_client, offVars, toolVars>>

\* The coroutine resumes after the await: login() returns True or raises
\* TickTickUnofficialAPIError(401); init_unofficial_client returns the global
\* _unofficial_client as it is now; get_unofficial_client sets the initialised
\* flag, or catches the exception and returns None.  The tool then proceeds.
login_returns(p) ==
    /\ co[p].pc = "resume"
    /\ \E ok \in BOOLEAN :
         IF uclients[co[p].obj].login = "ok"
         THEN /\ _unofficial_client_initialized' = TRUE
              /\ co' = [co EXCEPT ![p] =
                          [Idle EXCEPT !.obj = get_client(_unofficial_client),
                                       !.ret = ToolReturn(get_client(_unofficial_client), ok),
                                       !.sent = ToolSends(get_client(_unofficial_client))]]
         ELSE /\ co' = [co EXCEPT ![p] = [Idle EXCEPT !.ret = ToolReturn(get_client(0), ok)]]
              /\ UNCHANGED _unofficial_client_initialized
    /\ UNCHANGED <<bootVars, fileVars, cfgVars, _unofficial_client, uclients, offVars, toolVars>>

-----------------------------------------------------------------------------
(***************************************************************************)
(* The vendor's task store and the unofficial tool layer                   *)
(* (tools/unofficial_tools.py, and the batch methods of                    *)
(* TickTickUnofficialClient).  The tool functions are synchronous, so an   *)
(* invocation runs from its client lookup to its return without            *)
(* interleaving; each is one action.                                       *)
(***************************************************************************)

TaskIds == {"t1", "t2"}
MissingTask == "t9"
MaxItems == 2                 \* checklist items a task may hold in a run

BATCH_TASK == "/api/v2/batch/task"
BATCH_TASK_PARENT == "/api/v2/batch/taskParent"

EmptyDict == [f \in {} |-> None]
NoCall == [n |-> 0, tool |-> "none", task |-> None, found |-> FALSE, fetched |-> EmptyDict,
           args |-> EmptyDict, writes |-> <<>>, ret |-> "none", result |-> EmptyDict]

\* d without key k
DictDel(d, k) == [f \in (DOMAIN d) \ {k} |-> d[f]]

\* ---- the vendor, as the tools' comments describe it

\* GET /api/v2/task/{id}: the stored record; the answer for an unknown id is
\* an error or an empty body.
FetchOutcomes(task_id) == IF task_id \in TaskIds THEN {"ok", "error"} ELSE {"empty", "error"}
FetchTask(task_id, fo) == IF fo = "ok" THEN store[task_id] ELSE EmptyDict

\* "API will assign an ID" (unofficial_tools.py:1120): an item sent without an
\* id gets the next id of its task.
MaxItemId(items) ==
    LET ids == {DictGet(items[i], "id", 0) : i \in DOMAIN items} IN
    IF ids = {} THEN 0 ELSE CHOOSE m \in ids : \A n \in ids : n <= m
RECURSIVE AssignItemIds(_, _)
AssignItemIds(items, next) ==
    IF items = <<>> THEN <<>>
    ELSE IF "id" \in DOMAIN Head(items)
         THEN <<Head(items)>> \o AssignItemIds(Tail(items), next)
         ELSE <<DictSet(Head(items), "id", next)>> \o AssignItemIds(Tail(items), next + 1)
VendorNormalise(rec) ==
    IF "items" \in DOMAIN rec
    THEN DictSet(rec, "items", AssignItemIds(rec.items, MaxItemId(rec.items) + 1))
    ELSE rec

\* POST /api/v2/batch/task {"update": [rec]}: the vendor replaces the stored
\* record by the one sent ("partial updates strip fields",
\* unofficial_tools.py:136).  po is the vendor's answer: "ok", an "id2error"
\* entry for the task, or "error" (the call raises).
PostOutcomes == {"ok", "id2error", "error"}
VendorBatchUpdate(rec, po) ==
    IF po = "ok" /\ rec.id \in TaskIds
    THEN [store EXCEPT ![rec.id] = VendorNormalise(rec)]
    ELSE store

\* POST /api/v2/batch/taskParent [{parentId, projectId, taskId}]: "properly
\* updates BOTH parent.childIds AND child.parentId" (unofficial_tools.py:1001);
\* a null parentId removes the relationship.
RemoveChild(st, child) ==
    [t \in DOMAIN st |->
       IF t = child THEN DictDel(st[t], "parentId")
       ELSE IF "childIds" \in DOMAIN st[t]
            THEN DictSet(st[t], "childIds", st[t].childIds \ {child})
            ELSE st[t]]
VendorTaskParent(entry, po) ==
    IF po # "ok" THEN store
    ELSE IF entry.parentId = None THEN RemoveChild(store, entry.taskId)
    ELSE [t \in DOMAIN store |->
            IF t = entry.taskId THEN DictSet(RemoveChild(store, entry.taskId)[t], "parentId", entry.parentId)
            ELSE IF t = entry.parentId
                 THEN DictSet(RemoveChild(store, entry.taskId)[t], "childIds",
                              DictGet(RemoveChild(store, entry.taskId)[t], "childIds", {}) \cup {entry.taskId})
                 ELSE RemoveChild(store, entry.taskId)[t]]

\* _get_task_by_id (unofficial_tools.py:60-67): the task in the batch/check
\* data, or None.
GetTaskById(task_id) == IF task_id \in TaskIds THEN store[task_id] ELSE EmptyDict

\* ---- what each tool sends

\* A variant that sends the changed field with the identifiers alone.
PinPayloadPartial(task, now) ==
    [id |-> task.id, projectId |-> task.projectId, pinnedTime |-> now]

\* unofficial_pin_task, `task["pinnedTime"] = now`
PinPayload(task, now) == DictSet(task, "pinnedTime", now)
\* unofficial_unpin_task, `task["pinnedTime"] = "-1"`
UnpinPayload(task) == DictSet(task, "pinnedTime", "-1")
\* batch_update_task, `task_data = {"id": ..., "projectId": ..., **updates}`
BatchUpdateTaskData(task_id, project_id, updates) ==
    DictMerge([id |-> task_id, projectId |-> project_id], updates)
\* set_repeat_from, `updates={"repeatFrom": repeat_from}`
RepeatFromUpdates(repeat_from) == [repeatFrom |-> repeat_from]
\* `task.get("items") or []`
ItemsOf(task) == DictGet(task, "items", <<>>)
\* unofficial_add_checklist_item, `task["items"] = existing_items + [new_item]`
AddItemPayload(task, title) ==
    DictSet(task, "items", ItemsOf(task) \o <<[title |-> title, status |-> 0]>>)
\* unofficial_remove_checklist_item,
\* `[item for item in existing_items if item.get("id") != item_id]`
ItemsWithout(items, item_id) ==
    LET Keep(it) == DictGet(it, "id", 0) # item_id IN SelectSeq(items, Keep)
RemoveItemPayload(task, item_id) == DictSet(task, "items", ItemsWithout(ItemsOf(task), item_id))
\* unofficial_make_subtask / unofficial_remove_subtask, `subtask_payload`
MakeSubtaskEntry(child_id, parent_id, project_id) ==
    [parentId |-> parent_id, projectId |-> project_id, taskId |-> child_id]
\* A variant that names the old parent instead of sending a null reference.
RemoveSubtaskEntryNamingParent(child_id, project_id) ==
    [parentId |-> "t2", projectId |-> project_id, taskId |-> child_id]
RemoveSubtaskEntry(child_id, project_id) ==
    [parentId |-> None, projectId |-> project_id, taskId |-> child_id]

Write(endpoint, kind, body) == [endpoint |-> endpoint, kind |-> kind, body |-> body]

\* The common tail of the fetch-then-resend tools: the batch update and the
\* shaped return.  `checks_id2error` is FALSE for the tools that read only
\* id2etag from the answer.
ResendReturn(po, checks_id2error) ==
    CASE po = "error" -> "error_exception"
      [] po = "id2error" /\ checks_id2error -> "error_vendor"
      [] OTHER -> "success"

ToolSteps ==
    /\ phase = "serving"
    /\ ExistingAuthenticated
    /\ \A p \in Procs : co[p].pc = "idle"

unofficial_pin_task ==
    /\ ToolSteps
    /\ \E task_id \in {"t1", MissingTask}, now \in {"2026-02-06T10:00:00.000+0000"} :
       \E fo \in FetchOutcomes(task_id), po \in PostOutcomes :
         LET task == FetchTask(task_id, fo)
             base == [NoCall EXCEPT !.tool = "unofficial_pin_task", !.task = task_id, !.fetched = task,
                                    !.found = (fo = "ok"), !.args = [now |-> now]]
         IN  IF fo = "error"
             THEN call' = [base EXCEPT !.ret = "error_exception"] /\ UNCHANGED store
             ELSE IF task = EmptyDict
             THEN call' = [base EXCEPT !.ret = "error_not_found"] /\ UNCHANGED store
             ELSE /\ call' = [base EXCEPT !.writes = <<Write(BATCH_TASK, "update", PinPayload(task, now))>>,
                                          !.ret = ResendReturn(po, TRUE)]
                  /\ store' = VendorBatchUpdate(PinPayload(task, now), po)
    /\ UNCHANGED <<bootVars, fileVars, cfgVars, unoffVars, offVars, co>>

unofficial_unpin_task ==
    /\ ToolSteps
    /\ \E task_id \in {"t1", MissingTask} :
       \E fo \in FetchOutcomes(task_id), po \in PostOutcomes :
         LET task == FetchTask(task_id, fo)
             base == [NoCall EXCEPT !.tool = "unofficial_unpin_task", !.task = task_id, !.fetched = task,
                                    !.found = (fo = "ok")]
         IN  IF fo = "error"
             THEN call' = [base EXCEPT !.ret = "error_exception"] /\ UNCHANGED store
             ELSE IF task = EmptyDict
             THEN call' = [base EXCEPT !.ret = "error_not_found"] /\ UNCHANGED store
             ELSE /\ call' = [base EXCEPT !.writes = <<Write(BATCH_TASK, "update", UnpinPayload(task))>>,
                                          !.ret = ResendReturn(po, TRUE)]
                  /\ store' = VendorBatchUpdate(UnpinPayload(task), po)
    /\ UNCHANGED <<bootVars, fileVars, cfgVars, unoffVars, offVars, co>>

\* TickTickUnofficialClient.set_repeat_from (through batch_update_task): no
\* fetch; the ValueError for a bad repeat_from and the request's error leave
\* the method as exceptions.
set_repeat_from ==
    /\ ToolSteps
    /\ \E task_id \in {"t1"}, repeat_from \in {"0", "1", "2"}, po \in {"ok", "error"} :
         LET data == BatchUpdateTaskData(task_id, store[task_id].projectId,
                                         RepeatFromUpdates(repeat_from))
             base == [NoCall EXCEPT !.tool = "set_repeat_from", !.task = task_id,
                                    !.args = [repeat_from |-> repeat_from]]
         IN  IF repeat_from \notin {"0", "1"}
             THEN call' = [base EXCEPT !.ret = "exception"] /\ UNCHANGED store
             ELSE /\ call' = [base EXCEPT !.writes = <<Write(BATCH_TASK, "update", data)>>,
                                          !.ret = IF po = "ok" THEN "success" ELSE "exception"]
                  /\ store' = VendorBatchUpdate(data, po)
    /\ UNCHANGED <<bootVars, fileVars, cfgVars, unoffVars, offVars, co>>

unofficial_add_checklist_item ==
    /\ ToolSteps
    /\ \E task_id \in {"t1", MissingTask}, title \in {"milk"} :
       \E fo \in FetchOutcomes(task_id), po \in PostOutcomes :
         LET task == FetchTask(task_id, fo)
             base == [NoCall EXCEPT !.tool = "unofficial_add_checklist_item", !.task = task_id, !.fetched = task,
                                    !.found = (fo = "ok"), !.args = [title |-> title]]
         IN  IF fo = "error"
             THEN call' = [base EXCEPT !.ret = "error_exception"] /\ UNCHANGED store
             ELSE IF task = EmptyDict
             THEN call' = [base EXCEPT !.ret = "error_not_found"] /\ UNCHANGED store
             ELSE /\ Len(ItemsOf(task)) < MaxItems
                  /\ call' = [base EXCEPT !.writes = <<Write(BATCH_TASK, "update", AddItemPayload(task, title))>>,
                                          !.ret = ResendReturn(po, FALSE)]
                  /\ store' = VendorBatchUpdate(AddItemPayload(task, title), po)
    /\ UNCHANGED <<bootVars, fileVars, cfgVars, unoffVars, offVars, co>>

unofficial_remove_checklist_item ==
    /\ ToolSteps
    /\ \E task_id \in {"t1", MissingTask}, item_id \in {1, 2, 9} :
       \E fo \in FetchOutcomes(task_id), po \in PostOutcomes :
         LET task == FetchTask(task_id, fo)
             base == [NoCall EXCEPT !.tool = "unofficial_remove_checklist_item", !.task = task_id, !.fetched = task,
                                    !.found = (fo = "ok"), !.args = [item_id |-> item_id]]
         IN  IF fo = "error"
             THEN call' = [base EXCEPT !.ret = "error_exception"] /\ UNCHANGED store
             ELSE IF task = EmptyDict
             THEN call' = [base EXCEPT !.ret = "error_not_found"] /\ UNCHANGED store
             ELSE IF ItemsOf(task) = <<>>
             THEN call' = [base EXCEPT !.ret = "error_no_items"] /\ UNCHANGED store
             ELSE IF Len(ItemsWithout(ItemsOf(task), item_id)) = Len(ItemsOf(task))
             THEN call' = [base EXCEPT !.ret = "error_item_not_found"] /\ UNCHANGED store
             ELSE /\ call' = [base EXCEPT !.writes = <<Write(BATCH_TASK, "update", RemoveItemPayload(task, item_id))>>,
                                          !.ret = ResendReturn(po, FALSE)]
                  /\ store' = VendorBatchUpdate(RemoveItemPayload(task, item_id), po)
    /\ UNCHANGED <<bootVars, fileVars, cfgVars, unoffVars, offVars, co>>

unofficial_make_subtask ==
    /\ ToolSteps
    /\ \E child_id \in {"t1", MissingTask}, parent_id \in {"t2", MissingTask} :
       \E po \in PostOutcomes :
         LET child == GetTaskById(child_id)
             parent == GetTaskById(parent_id)
             base == [NoCall EXCEPT !.tool = "unofficial_make_subtask", !.task = child_id, !.fetched = child,
                                    !.found = (child # EmptyDict), !.args = [parent |-> parent_id]]
         IN  IF child = EmptyDict
             THEN call' = [base EXCEPT !.ret = "error_not_found"] /\ UNCHANGED store
             ELSE IF parent = EmptyDict
             THEN call' = [base EXCEPT !.ret = "error_parent_not_found"] /\ UNCHANGED store
             ELSE IF DictGet(child, "projectId", None) # DictGet(parent, "projectId", None)
             THEN call' = [base EXCEPT !.ret = "error_other_project"] /\ UNCHANGED store
             ELSE LET entry == MakeSubtaskEntry(child_id, parent_id, DictGet(child, "projectId", None))
                  IN  /\ call' = [base EXCEPT !.writes = <<Write(BATCH_TASK_PARENT, "parent", entry)>>,
                                              !.ret = ResendReturn(po, TRUE)]
                      /\ store' = VendorTaskParent(entry, po)
    /\ UNCHANGED <<bootVars, fileVars, cfgVars, unoffVars, offVars, co>>

unofficial_remove_subtask ==
    /\ ToolSteps
    /\ \E child_id \in {"t1", MissingTask}, po \in PostOutcomes :
         LET child == GetTaskById(child_id)
             base == [NoCall EXCEPT !.tool = "unofficial_remove_subtask", !.task = child_id, !.fetched = child,
                                    !.found = (child # EmptyDict)]
         IN  IF child = EmptyDict
             THEN call' = [base EXCEPT !.ret = "error_not_found"] /\ UNCHANGED store
             ELSE IF ~Truthy(DictGet(child, "parentId", None))
             THEN call' = [base EXCEPT !.ret = "error_not_subtask"] /\ UNCHANGED store
             ELSE LET entry == RemoveSubtaskEntry(child_id, DictGet(child, "projectId", None))
                  IN  /\ call' = [base EXCEPT !.writes = <<Write(BATCH_TASK_PARENT, "parent", entry)>>,
                                              !.ret = ResendReturn(po, TRUE)]
                      /\ store' = VendorTaskParent(entry, po)
    /\ UNCHANGED <<bootVars, fileVars, cfgVars, unoffVars, offVars, co>>

-----------------------------------------------------------------------------
(***************************************************************************)
(* Updates: unofficial_update_task, and the official ticktick_update_task  *)
(* and ticktick_update_project over TickTickClient.update_task and         *)
(* update_project.  A parameter left at its None default is one that is    *)
(* not in args.supplied.                                                   *)
(***************************************************************************)

ProjectIds == {"p1"}
DEFAULT_TIME_ZONE == "America/New_York"

Supplied(args, param) == param \in args.supplied

\* str.replace("-", "") on the date strings the model uses, and Python's
\* order (<) of those strings, with and without dashes.
CompactDate(d) ==
    CASE d = "2026-02-05" -> "20260205"
      [] d = "2026-02-10" -> "20260210"
      [] d = "2026-03-01" -> "20260301"
      [] d = "2026-03-15" -> "20260315"
      [] OTHER -> d
DateRank(d) ==
    CASE d \in {"2026-02-05", "20260205"} -> 1
      [] d \in {"2026-02-10", "20260210"} -> 2
      [] d \in {"2026-03-01", "20260301"} -> 3
      [] d \in {"2026-03-15", "20260315"} -> 4
      [] OTHER -> 5
DateBefore(a, b) == DateRank(a) < DateRank(b)
RECURSIVE Join(_)
Join(parts) ==
    IF parts = <<>> THEN ""
    ELSE IF Len(parts) = 1 THEN parts[1]
    ELSE parts[1] \o "," \o Join(Tail(parts))
MinDate(dates) == CHOOSE d \in {dates[i] : i \in DOMAIN dates} :
                     \A i \in DOMAIN dates : ~DateBefore(dates[i], d)

\* A variant that keeps the dates in the order given.
EruleFlagUnsorted(dates) ==
    "ERULE:NAME=CUSTOM;BYDATE=" \o Join([i \in DOMAIN dates |-> CompactDate(dates[i])])

\* unofficial_tools.py:637-641 and 840-844: the ERULE fields built from
\* specific_dates, `sorted([d.replace("-", "") for d in specific_dates])`
\* joined by commas, and `min(specific_dates)` at the fixed hour.
EruleFlag(dates) ==
    "ERULE:NAME=CUSTOM;BYDATE="
    \o Join(SortSeq([i \in DOMAIN dates |-> CompactDate(dates[i])], DateBefore))
EruleFirstDate(dates) == MinDate(dates) \o "T05:00:00.000+0000"

\* _normalize_repeat_from on the values the model passes.
NormalizeRepeatFrom(value) ==
    CASE value \in {"completion_date", "Completion Date", "completion", "1"} -> "1"
      [] value \in {"due_date", "due", "0"} -> "0"
      [] OTHER -> value

\* unofficial_tools.py:806-853 over the parameters the model passes: the
\* fetched record after the in-memory field changes.
WithOwnFields(task, args) ==
    LET t1 == IF Supplied(args, "title") THEN DictSet(task, "title", args.title) ELSE task
    IN  IF Supplied(args, "due_date") THEN DictSet(t1, "dueDate", args.due_date) ELSE t1
WithTimeZone(task, args) ==
    IF Supplied(args, "due_date") THEN DictSet(task, "timeZone", args.time_zone) ELSE task
WithStatus(task, args) ==
    IF ~Supplied(args, "status") THEN task
    ELSE IF args.status = 0
         THEN DictSet(DictSet(task, "status", 0), "completedTime", None)
         ELSE DictSet(task, "status", args.status)
WithRecurrence(task, args) ==
    IF Supplied(args, "specific_dates")
    THEN DictMerge(task, [repeatFlag |-> EruleFlag(args.specific_dates),
                          repeatFirstDate |-> EruleFirstDate(args.specific_dates),
                          repeatFrom |-> "0"])
    ELSE LET t1 == IF Supplied(args, "repeat_flag")
                   THEN DictSet(task, "repeatFlag", args.repeat_flag) ELSE task
         IN  IF Supplied(args, "repeat_from")
             THEN DictSet(t1, "repeatFrom", NormalizeRepeatFrom(args.repeat_from)) ELSE t1
\* A variant that sends only the identifiers and the title.
UpdatedTaskPartial(task, args) ==
    [id |-> task.id, projectId |-> task.projectId,
     title |-> IF Supplied(args, "title") THEN args.title ELSE task.title]

UpdatedTask(task, args) ==
    WithRecurrence(WithStatus(WithTimeZone(WithOwnFields(task, args), args), args), args)

\* The arguments of an unofficial_update_task invocation.  time_zone is never
\* None: left out, it is "America/New_York".
UnofficialUpdateArgs(sup, st, dates) ==
    [supplied |-> sup, title |-> "Renamed", due_date |-> "2026-03-01", status |-> st,
     specific_dates |-> dates,
     repeat_flag |-> "RRULE:FREQ=DAILY;INTERVAL=3", repeat_from |-> "completion_date",
     time_zone |-> IF "time_zone" \in sup THEN "Asia/Tokyo" ELSE DEFAULT_TIME_ZONE]
UnofficialUpdateInputs ==
    {UnofficialUpdateArgs(sup, 0, <<>>) : sup \in SUBSET {"title", "due_date", "time_zone"}}
    \cup {UnofficialUpdateArgs(sup \cup {"status"}, st, <<>>) :
             sup \in SUBSET {"title", "due_date"}, st \in {0, 2}}
    \cup {UnofficialUpdateArgs(sup \cup {"specific_dates"}, 0, dates) :
             sup \in SUBSET {"title"}, dates \in {<<"2026-03-15", "2026-03-01">>, <<>>}}
    \cup {UnofficialUpdateArgs({"specific_dates", "repeat_flag", "repeat_from"}, 0, dates) :
             dates \in {<<"2026-02-10", "2026-02-05">>, <<>>}}
    \cup {UnofficialUpdateArgs(sup, 0, <<>>) : sup \in {{"repeat_flag"}, {"repeat_flag", "repeat_from"}}}
MaxUpdates == 2               \* update invocations in a run

unofficial_update_task ==
    /\ ToolSteps
    /\ call.n < MaxUpdates
    /\ \E task_id \in {"t1", MissingTask}, args \in UnofficialUpdateInputs :
       \E fo \in FetchOutcomes(task_id), po \in {"ok", "error"} :
         LET task == FetchTask(task_id, fo)
             base == [NoCall EXCEPT !.n = call.n + 1,
                                    !.tool = "unofficial_update_task", !.task = task_id,
                                    !.fetched = task, !.found = (fo = "ok"), !.args = args]
         IN  IF fo = "error"
             THEN call' = [base EXCEPT !.ret = "error_exception"] /\ UNCHANGED store
             ELSE IF task = EmptyDict
             THEN call' = [base EXCEPT !.ret = "error_not_found"] /\ UNCHANGED store
             ELSE IF Supplied(args, "specific_dates") /\ args.specific_dates = <<>>
             THEN call' = [base EXCEPT !.ret = "error_exception"] /\ UNCHANGED store
             ELSE /\ call' = [base EXCEPT !.writes = <<Write(BATCH_TASK, "update", UpdatedTask(task, args))>>,
                                          !.ret = ResendReturn(po, FALSE)]
                  /\ store' = VendorBatchUpdate(UpdatedTask(task, args), po)
    /\ UNCHANGED <<bootVars, fileVars, cfgVars, unoffVars, offVars, co>>

\* ---- unofficial_create_task (tools/unofficial_tools.py:498-661)

\* The task dict before the recurrence fields: the fixed keys, and one key
\* per truthy optional argument.
NewTask(args) ==
    LET t0 == [title |-> args.title, projectId |-> args.project_id, priority |-> 0, status |-> 0,
               timeZone |-> args.time_zone, isAllDay |-> TRUE]
    IN  IF Supplied(args, "due_date") /\ Truthy(args.due_date)
        THEN DictSet(t0, "dueDate", args.due_date) ELSE t0

\* `if specific_dates: ... elif repeat_flag: ...; if repeat_from: ...`
CreateRecurrence(task, args) ==
    IF Supplied(args, "specific_dates") /\ args.specific_dates # <<>>
    THEN DictMerge(task, [repeatFlag |-> EruleFlag(args.specific_dates),
                          repeatFirstDate |-> EruleFirstDate(args.specific_dates),
                          repeatFrom |-> "0"])
    ELSE IF Supplied(args, "repeat_flag") /\ Truthy(args.repeat_flag)
    THEN LET t1 == DictSet(task, "repeatFlag", args.repeat_flag)
         IN  IF Supplied(args, "repeat_from") /\ Truthy(args.repeat_from)
             THEN DictSet(t1, "repeatFrom", NormalizeRepeatFrom(args.repeat_from)) ELSE t1
    ELSE task

CreatedTask(args) == CreateRecurrence(NewTask(args), args)

\* POST /api/v2/batch/task {"add": [task]}: the vendor stores the task under
\* an id of its choosing and answers with that id in id2etag.
NewIds == <<"n1", "n2", "n3", "n4">>
NextNewId(st) ==
    NewIds[CHOOSE i \in DOMAIN NewIds :
              NewIds[i] \notin DOMAIN st /\ \A j \in 1 .. (i - 1) : NewIds[j] \in DOMAIN st]
VendorBatchAdd(task, po) ==
    IF po = "ok"
    THEN [t \in DOMAIN store \cup {NextNewId(store)} |->
            IF t \in DOMAIN store THEN store[t] ELSE DictSet(task, "id", t)]
    ELSE store

CreateDates ==
    {<<"2026-02-10", "2026-02-05">>, <<"2026-02-05", "2026-02-10">>, <<"2026-02-05">>,
     <<"2026-03-15", "2026-02-05", "2026-03-01">>, <<>>}
CreateInputs ==
    {[supplied |-> sup, title |-> "Take medication", project_id |-> "p1", due_date |-> "2026-02-05",
      specific_dates |-> dates, repeat_flag |-> "RRULE:FREQ=DAILY;INTERVAL=3",
      repeat_from |-> "completion_date", time_zone |-> DEFAULT_TIME_ZONE] :
        sup \in {{}, {"due_date"}, {"repeat_flag"}, {"repeat_flag", "repeat_from"}, {"repeat_from"},
                 {"specific_dates"}, {"specific_dates", "repeat_flag"},
                 {"specific_dates", "repeat_flag", "repeat_from"}},
        dates \in CreateDates}

unofficial_create_task ==
    /\ ToolSteps
    /\ call.n < MaxUpdates
    /\ \E i \in DOMAIN NewIds : NewIds[i] \notin DOMAIN store
    /\ \E args \in CreateInputs, po \in {"ok", "error"} :
         LET task == CreatedTask(args)
             base == [NoCall EXCEPT !.n = call.n + 1, !.tool = "unofficial_create_task",
                                    !.task = NextNewId(store), !.args = args,
                                    !.writes = <<Write(BATCH_TASK, "add", task)>>]
         IN  /\ call' = [base EXCEPT !.ret = ResendReturn(po, FALSE),
                                     !.result = IF po = "ok"
                                                THEN [success |-> TRUE, task |-> DictSet(task, "id", NextNewId(store))]
                                                ELSE [error |-> "request failed"]]
             /\ store' = VendorBatchAdd(task, po)
    /\ UNCHANGED <<bootVars, fileVars, cfgVars, unoffVars, offVars, co>>

\* _format_date_for_ticktick on the inputs the model passes: a date without
\* time is taken at midnight in time_zone, or as +0000 when no zone is given;
\* None or "" gives None.
FormatDateForTicktick(date_str, zoned, time_zone) ==
    CASE ~Truthy(date_str) -> None
      [] ~zoned -> date_str \o "T00:00:00.000+0000"
      [] time_zone = "Asia/Tokyo" -> date_str \o "T00:00:00.000+0900"
      [] time_zone = "Europe/Paris" -> date_str \o "T00:00:00.000+0100"
      [] OTHER -> date_str \o "T00:00:00.000-0500"

\* TickTickClient.update_task: `body = {"id": task_id, "projectId": project_id}`
\* and one key per argument that is not None.
UpdateTaskBody(task_id, project_id, args) ==
    LET b0 == [id |-> task_id, projectId |-> project_id]
        b1 == IF Supplied(args, "title") THEN DictSet(b0, "title", args.title) ELSE b0
        due == FormatDateForTicktick(IF Supplied(args, "due_date") THEN args.due_date ELSE None,
                                     Supplied(args, "time_zone"), args.time_zone)
        b2 == IF due # None THEN DictSet(b1, "dueDate", due) ELSE b1
        b3 == IF Supplied(args, "time_zone") THEN DictSet(b2, "timeZone", args.time_zone) ELSE b2
    IN  IF Supplied(args, "tags") THEN DictSet(b3, "tags", args.tags) ELSE b3

\* TickTickClient.update_project: `body = {}` and one key per truthy argument.
UpdateProjectBody(args) ==
    LET b1 == IF Supplied(args, "name") /\ Truthy(args.name)
              THEN DictSet(EmptyDict, "name", args.name) ELSE EmptyDict
    IN  IF Supplied(args, "color") /\ Truthy(args.color) THEN DictSet(b1, "color", args.color) ELSE b1

\* POST /task/{id} and POST /project/{id} of the official API: the keys of
\* the body replace those of the stored record, the others stay.
VendorOfficialUpdate(id, body, resp) ==
    IF resp \in {"json", "empty", "bad_json"} /\ id \in DOMAIN store
    THEN [store EXCEPT ![id] = VendorNormalise(DictMerge(@, body))]
    ELSE store

OfficialUpdateInputs ==
    {[supplied |-> sup, title |-> "Renamed", due_date |-> due, tags |-> <<"urgent">>,
      time_zone |-> "Asia/Tokyo"] :
        sup \in {{"title"}, {"due_date"}, {"tags"}, {"due_date", "time_zone"},
                 {"title", "tags", "time_zone"}},
        due \in {"2026-03-01", ""}}

\* ticktick_update_task run by one coroutine from the client lookup to the
\* return, while no other invocation is in flight.
ticktick_update_task ==
    /\ phase = "serving"
    /\ \A p \in Procs : co[p].pc = "idle"
    /\ call.n < MaxUpdates
    /\ \E task_id \in {"t1"}, args \in OfficialUpdateInputs, resp \in RespKinds :
         LET base == [NoCall EXCEPT !.n = call.n + 1, !.tool = "ticktick_update_task", !.task = task_id,
                                    !.fetched = store[task_id], !.args = args]
             body == UpdateTaskBody(task_id, store[task_id].projectId, args)
         IN  IF NoAccessToken
             THEN /\ call' = [base EXCEPT !.ret = "error_not_authenticated"]
                  /\ UNCHANGED <<store, offVars>>
             ELSE /\ init_ticktick_client(ACCESS_TOKEN, USER_ID)
                  /\ call' = [base EXCEPT !.writes = <<Write("/task/" \o task_id, "post", body)>>,
                                          !.ret = OneRequestTool("format", resp)]
                  /\ store' = VendorOfficialUpdate(task_id, body, resp)
    /\ UNCHANGED <<bootVars, fileVars, cfgVars, unoffVars, co>>

ProjectUpdateInputs ==
    {[supplied |-> sup, name |-> name, color |-> "#F18181"] :
        sup \in SUBSET {"name", "color"}, name \in {"Trips", ""}}

ticktick_update_project ==
    /\ phase = "serving"
    /\ \A p \in Procs : co[p].pc = "idle"
    /\ call.n < MaxUpdates
    /\ \E project_id \in ProjectIds, args \in ProjectUpdateInputs, resp \in RespKinds :
         LET base == [NoCall EXCEPT !.n = call.n + 1, !.tool = "ticktick_update_project", !.task = project_id,
                                    !.fetched = store[project_id], !.args = args]
             body == UpdateProjectBody(args)
         IN  IF NoAccessToken
             THEN /\ call' = [base EXCEPT !.ret = "error_not_authenticated"]
                  /\ UNCHANGED <<store, offVars>>
             ELSE /\ init_ticktick_client(ACCESS_TOKEN, USER_ID)
                  /\ call' = [base EXCEPT !.writes = <<Write("/project/" \o project_id, "post", body)>>,
                                          !.ret = OneRequestTool("or_empty", resp)]
                  /\ store' = VendorOfficialUpdate(project_id, body, resp)
    /\ UNCHANGED <<bootVars, fileVars, cfgVars, unoffVars, co>>

-----------------------------------------------------------------------------
(***************************************************************************)
(* The official client's requests by status and body                       *)
(* (TickTickClient._request), and official tools run from the client       *)
(* lookup to the return while no other invocation is in flight.  The       *)
(* object a tool returns is call.result.                                   *)
(***************************************************************************)

MaxCalls == 2                 \* official tool invocations in a run

\* What comes back for one request: an HTTP response (status and body), or
\* nothing because httpx raised RequestError.  A body is JSON that parses
\* (json is the parsed value), empty, or text that response.json() rejects.
JsonBody(v) == [kind |-> "json", json |-> v, text |-> "{json}"]
EmptyBody == [kind |-> "empty", json |-> EmptyDict, text |-> ""]
TextBody == [kind |-> "text", json |-> EmptyDict, text |-> "<html>Bad Gateway</html>"]
HttpResponse(status, body) == [arrived |-> TRUE, status |-> status, body |-> body]
RequestError == [arrived |-> FALSE, status |-> 0, body |-> EmptyBody]
Success(status) == status \in 200 .. 299

\* TickTickAPIError(status_code, message, response_body) raised, a value or
\* None returned, or another exception leaving _request.
APIError(status_code, message, kind, body) ==
    [outcome |-> "api_error", status_code |-> status_code, message |-> message,
     body_kind |-> kind, response_body |-> body, value |-> EmptyDict]
Returned(outcome, value) ==
    [outcome |-> outcome, status_code |-> -1, message |-> "", body_kind |-> "none",
     response_body |-> "", value |-> value]

\* TickTickClient._request (ticktick_client.py:80-137)
_request(endpoint, ans) ==
    IF ~ans.arrived
    THEN APIError(0, "Request failed: timeout", "none", "")
    ELSE IF ans.status >= 400
    THEN IF ans.body.kind = "json"
         THEN APIError(ans.status, "API request failed: " \o endpoint, "json", ans.body.json)
         ELSE APIError(ans.status, "API request failed: " \o endpoint, "text", ans.body.text)
    ELSE IF ans.status = 204 \/ ans.body.kind = "empty"
    THEN Returned("none", EmptyDict)
    ELSE IF ans.body.kind = "json"
    THEN Returned("value", ans.body.json)
    ELSE Returned("exception", EmptyDict)

\* str(e) of a TickTickAPIError, and the tools' `except TickTickAPIError`
\* return: {"error": str(e), "status_code": e.status_code}.
ApiErrorStr(e) == "TickTick API Error " \o ToString(e.status_code) \o ": " \o e.message
ToolError(e) == [error |-> ApiErrorStr(e), status_code |-> e.status_code]

\* The tools' return when get_ticktick_client() gave None.
NOT_AUTHENTICATED == [error |-> "Not authenticated. Please complete OAuth flow at /oauth/start"]

\* An exception that no handler of the tool catches.
Escapes(name) == [exception |-> name]

\* The answers the vendor gives to a request of one of these tools.
ServerAnswers ==
    {HttpResponse(st, b) : st \in {200, 302, 404, 500}, b \in {JsonBody([ok |-> TRUE]), EmptyBody, TextBody}}
    \cup {HttpResponse(204, EmptyBody), RequestError}

\* POST /project/{p}/task/{t}/complete at the vendor: a 2xx answer is given
\* once the task is completed.
VendorComplete(task_id, ans) ==
    IF ans.arrived /\ Success(ans.status) /\ task_id \in DOMAIN store
    THEN [store EXCEPT ![task_id] = DictSet(@, "status", 2)]
    ELSE store

\* ticktick_complete_task (tools/task_tools.py:822-848) over
\* TickTickClient.complete_task, which drops _request's result.
ticktick_complete_task ==
    /\ phase = "serving"
    /\ \A p \in Procs : co[p].pc = "idle"
    /\ call.n < MaxCalls
    /\ \E task_id \in {"t1"}, ans \in ServerAnswers :
         LET endpoint == "/project/" \o store[task_id].projectId \o "/task/" \o task_id \o "/complete"
             r == _request(endpoint, ans)
             base == [NoCall EXCEPT !.n = call.n + 1, !.tool = "ticktick_complete_task",
                                    !.task = task_id, !.args = [answer |-> ans]]
         IN  IF NoAccessToken
             THEN /\ call' = [base EXCEPT !.ret = "error_not_authenticated", !.result = NOT_AUTHENTICATED]
                  /\ UNCHANGED <<store, offVars>>
             ELSE /\ init_ticktick_client(ACCESS_TOKEN, USER_ID)
                  /\ store' = VendorComplete(task_id, ans)
                  /\ call' = [base EXCEPT
                        !.writes = <<Write(endpoint, "post", EmptyDict)>>,
                        !.ret = CASE r.outcome = "api_error" -> "error"
                                  [] r.outcome = "exception" -> "exception"
                                  [] OTHER -> "success",
                        !.result = CASE r.outcome = "api_error" -> ToolError(r)
                                     [] r.outcome = "exception" -> Escapes("JSONDecodeError")
                                     [] OTHER -> [success |-> TRUE,
                                                  message |-> "Task " \o task_id \o " marked as complete"]]
    /\ UNCHANGED <<bootVars, fileVars, cfgVars, unoffVars, co>>

\* ---- ticktick_create_task (tools/task_tools.py:232-306) over
\* TickTickClient.create_task (ticktick_client.py:275-345)

\* A variant of _request that sends again when no answer or a 5xx came back.
OfficialAttemptsRetrying(ans) == IF ~ans.arrived \/ ans.status >= 500 THEN 2 ELSE 1

\* How many times TickTickClient._request hands the request to httpx: the
\* one `await client.request(...)` of its try block, whose handlers raise.
\* The AsyncClient is built without a retrying transport.
OfficialAttempts(ans) == 1

\* create_task's body: title and projectId, and one key per argument that is
\* not None.
CreateTaskBody(args) ==
    LET b0 == [title |-> args.title, projectId |-> args.project_id]
    IN  IF Supplied(args, "content") THEN DictSet(b0, "content", args.content) ELSE b0
OfficialCreateInputs ==
    {[supplied |-> sup, title |-> "Pack bags", project_id |-> "p1", content |-> "passport"] :
        sup \in SUBSET {"content"}}

\* POST /task at the vendor.  A request that arrives is stored under a new id
\* when `processed`; the answer is 200 with the record only if it was, and a
\* lost answer (RequestError) leaves either possible.
RECURSIVE VendorCreates(_, _, _)
VendorCreates(st, sent, processed) ==
    IF sent = <<>> \/ ~processed THEN st
    ELSE VendorCreates([t \in DOMAIN st \cup {NextNewId(st)} |->
                           IF t \in DOMAIN st THEN st[t]
                           ELSE DictMerge(sent[1].body, [id |-> t, status |-> 0])],
                       Tail(sent), processed)
CreateAnswers ==
    {HttpResponse(200, JsonBody([id |-> "new"])), HttpResponse(200, EmptyBody),
     HttpResponse(401, JsonBody([error |-> "unauthorized"])), HttpResponse(500, TextBody),
     RequestError}
Processed(ans) ==
    IF ~ans.arrived THEN BOOLEAN ELSE {Success(ans.status)}

ticktick_create_task ==
    /\ phase = "serving"
    /\ \A p \in Procs : co[p].pc = "idle"
    /\ call.n < MaxCalls
    /\ Cardinality(DOMAIN store) + 2 <= Cardinality(TaskIds \cup ProjectIds) + Len(NewIds)
    /\ \E args \in OfficialCreateInputs, ans \in CreateAnswers :
       \E processed \in Processed(ans) :
         LET r == _request("/task", ans)
             body == CreateTaskBody(args)
             sent == [i \in 1 .. OfficialAttempts(ans) |-> Write("/task", "post", body)]
             base == [NoCall EXCEPT !.n = call.n + 1, !.tool = "ticktick_create_task",
                                    !.args = [supplied |-> args.supplied, title |-> args.title,
                                              answer |-> ans, processed |-> processed]]
         IN  IF NoAccessToken
             THEN /\ call' = [base EXCEPT !.ret = "error_not_authenticated", !.result = NOT_AUTHENTICATED]
                  /\ UNCHANGED <<store, offVars>>
             ELSE /\ init_ticktick_client(ACCESS_TOKEN, USER_ID)
                  /\ store' = VendorCreates(store, sent, processed)
                  /\ call' = [base EXCEPT
                        !.writes = sent,
                        !.ret = CASE r.outcome = "api_error" -> "error"
                                  [] r.outcome = "value" -> "success"
                                  [] OTHER -> "exception",
                        !.result = CASE r.outcome = "api_error" -> ToolError(r)
                                     [] r.outcome = "value" -> [success |-> TRUE, task |-> body]
                                     [] r.outcome = "none" -> Escapes("AttributeError")
                                     [] OTHER -> Escapes("JSONDecodeError")]
    /\ UNCHANGED <<bootVars, fileVars, cfgVars, unoffVars, co>>

\* ---- the official checklist-item tools (tools/task_tools.py:386-588)
\* Each is a coroutine with two awaits, get_task and update_task; another
\* invocation can run between them.

\* The answers to a GET of a task: the record when the vendor has it.
GetAnswers(task_id) ==
    IF task_id \in DOMAIN store THEN {"json", "http_error", "network_error"}
    ELSE {"http_error", "network_error", "empty"}

ChecklistTools ==
    {"ticktick_add_checklist_item", "ticktick_update_checklist_item", "ticktick_remove_checklist_item"}
ChecklistInputs(tool) ==
    CASE tool = "ticktick_add_checklist_item" -> {[title |-> t] : t \in {"pack", "visa"}}
      [] tool = "ticktick_update_checklist_item" ->
           {[supplied |-> sup, item_id |-> i, title |-> "call", status |-> 2] :
              i \in {1, 9}, sup \in SUBSET {"title", "status"}}
      [] OTHER -> {[item_id |-> i] : i \in {1, 9}}

\* An item without an id (`item.get("id")` is None) has id 0 here.
HasItem(items, item_id) == \E i \in DOMAIN items : DictGet(items[i], "id", 0) = item_id

\* ticktick_update_checklist_item, the loop body: title and status are set
\* on the matching item when they are not None.
WithItemChanges(item, args) ==
    LET it1 == IF Supplied(args, "title") THEN DictSet(item, "title", args.title) ELSE item
    IN  IF Supplied(args, "status") THEN DictSet(it1, "status", args.status) ELSE it1

\* `updated_items` of each tool, from the items of the fetched task.
ChecklistItems(tool, args, existing) ==
    CASE tool = "ticktick_add_checklist_item" -> existing \o <<[title |-> args.title, status |-> 0]>>
      [] tool = "ticktick_update_checklist_item" ->
           [i \in DOMAIN existing |->
              IF DictGet(existing[i], "id", 0) = args.item_id
              THEN WithItemChanges(existing[i], args) ELSE existing[i]]
      [] OTHER -> ItemsWithout(existing, args.item_id)

\* A variant that refuses nothing.
RefusesNothing(tool, args, existing) == "none"

\* The early returns of update and remove: no items, or no item of that id.
ChecklistRefusal(tool, args, existing) ==
    CASE tool = "ticktick_add_checklist_item" -> "none"
      [] existing = <<>> -> "error_no_items"
      [] ~HasItem(existing, args.item_id) -> "error_item_not_found"
      [] OTHER -> "none"

\* update_task(task_id, project_id, items=updated_items)
ChecklistUpdateBody(task_id, project_id, items) ==
    [id |-> task_id, projectId |-> project_id, items |-> items]

\* A coroutine between its two awaits, and after its return.
Suspended(tool, task_id, args, task, items, overlapped) ==
    [pc |-> "fetched", tool |-> tool, obj |-> 0, ret |-> "none", sent |-> FALSE,
     task |-> task_id, args |-> args, fetched |-> task, items |-> items, overlapped |-> overlapped]
Finished(tool, task_id, args, task, ret, overlapped) ==
    [pc |-> "returned", tool |-> tool, obj |-> 0, ret |-> ret, sent |-> FALSE,
     task |-> task_id, args |-> args, fetched |-> task, overlapped |-> overlapped]

\* From the call to the second await: get_task is answered and the early
\* returns are taken, or the coroutine suspends in update_task.
checklist_fetch(p) ==
    /\ phase = "serving"
    /\ ~NoAccessToken
    /\ co[p].pc = "idle"
    /\ call.n < MaxCalls
    /\ \E tool \in ChecklistTools, task_id \in {"t1", MissingTask} :
       \E args \in ChecklistInputs(tool), rg \in GetAnswers(task_id) :
         LET task == IF rg = "json" THEN store[task_id] ELSE EmptyDict
             existing == ItemsOf(task)
             refusal == ChecklistRefusal(tool, args, existing)
             ret == CASE OfficialRequest(rg) = "api_error" -> "error"
                      [] OfficialRequest(rg) # "value" -> "exception"
                      [] OTHER -> refusal
             overlaps == \E q \in Procs \ {p} : co[q].pc = "fetched"
         IN  IF ret # "none"
             THEN /\ co' = [co EXCEPT ![p] = Finished(tool, task_id, args, task, ret, FALSE)]
                  /\ call' = [NoCall EXCEPT !.n = call.n + 1, !.tool = tool, !.task = task_id,
                                            !.found = (rg = "json"), !.fetched = task,
                                            !.args = args, !.ret = ret]
             ELSE /\ co' = [q \in Procs |->
                              IF q = p
                              THEN Suspended(tool, task_id, args, task,
                                             ChecklistItems(tool, args, existing), overlaps)
                              ELSE IF co[q].pc = "fetched" THEN [co[q] EXCEPT !.overlapped = TRUE]
                              ELSE co[q]]
                  /\ call' = [call EXCEPT !.n = @ + 1]
    /\ UNCHANGED <<bootVars, fileVars, cfgVars, unoffVars, offVars, store>>

\* From the answer of update_task to the return.
checklist_write(p) ==
    /\ co[p].pc = "fetched"
    /\ \E ru \in RespKinds :
         LET body == ChecklistUpdateBody(co[p].task, "p1", co[p].items)
             ret == CASE OfficialRequest(ru) = "api_error" -> "error"
                      [] OfficialRequest(ru) = "value" -> "success"
                      [] OTHER -> "exception"
         IN  /\ store' = VendorOfficialUpdate(co[p].task, body, ru)
             /\ co' = [co EXCEPT ![p] = Finished(co[p].tool, co[p].task, co[p].args, co[p].fetched, ret, co[p].overlapped)]
             /\ call' = [NoCall EXCEPT !.n = call.n, !.tool = co[p].tool, !.task = co[p].task,
                                       !.found = TRUE, !.fetched = co[p].fetched, !.args = co[p].args,
                                       !.writes = <<Write("/task/" \o co[p].task, "post", body)>>,
                                       !.ret = ret]
    /\ UNCHANGED <<bootVars, fileVars, cfgVars, unoffVars, offVars>>

\* ---- ticktick_convert_task_to_checklist_item (tools/task_tools.py:670-747)

\* A variant in which the delete is sent whatever became of the update.
DeleteAlwaysSent(ru) == TRUE

\* The `await client.delete_task(...)` line is reached only if update_task
\* returned: neither TickTickAPIError nor another exception left it.
DeleteSent(ru) == OfficialRequest(ru) \in {"value", "none"}

\* `new_item`: the child's title and status, and its startDate when truthy.
ItemFromTask(task) ==
    LET it == [title |-> DictGet(task, "title", None), status |-> DictGet(task, "status", 0)]
    IN  IF Truthy(DictGet(task, "startDate", None)) THEN DictSet(it, "startDate", task.startDate) ELSE it

\* update_task(task_id, project_id, items=updated_items): id, projectId, items.
ConvertUpdateBody(parent_task_id, child_project_id, parent_task, child_task) ==
    [id |-> parent_task_id, projectId |-> child_project_id,
     items |-> ItemsOf(parent_task) \o <<ItemFromTask(child_task)>>]

\* DELETE /project/{p}/task/{t} at the vendor, for a 2xx answer.
VendorDelete(st, task_id, resp) ==
    IF resp \in {"json", "empty", "bad_json"} /\ task_id \in DOMAIN st
    THEN [t \in DOMAIN st \ {task_id} |-> st[t]]
    ELSE st

\* What the tool returns, by the outcomes of its four requests in order.
ConvertReturn(rc, rp, sameProject, ru, rd) ==
    CASE OfficialRequest(rc) = "api_error" -> "error"
      [] OfficialRequest(rc) # "value" -> "exception"
      [] OfficialRequest(rp) = "api_error" -> "error"
      [] OfficialRequest(rp) # "value" -> "exception"
      [] ~sameProject -> "error_different_project"
      [] OfficialRequest(ru) = "api_error" -> "error"
      [] OfficialRequest(ru) = "raise" -> "exception"
      [] OfficialRequest(rd) = "api_error" -> "error"
      [] OfficialRequest(rd) = "raise" -> "exception"
      [] OfficialRequest(ru) = "none" -> "exception"
      [] OTHER -> "success"

ticktick_convert_task_to_checklist_item ==
    /\ phase = "serving"
    /\ ~NoAccessToken
    /\ \A p \in Procs : co[p].pc = "idle"
    /\ call.n < MaxCalls
    /\ \E child \in {"t2"}, parent \in {"t1"} :
       \E rc \in GetAnswers(child), rp \in GetAnswers(parent), ru \in RespKinds, rd \in RespKinds :
         LET fetched == rc = "json" /\ rp = "json"
             child_task == IF rc = "json" THEN store[child] ELSE EmptyDict
             parent_task == IF rp = "json" THEN store[parent] ELSE EmptyDict
             sameProject == fetched /\ child_task.projectId = parent_task.projectId
             body == ConvertUpdateBody(parent, "p1", parent_task, child_task)
             updates == fetched /\ sameProject
             deletes == updates /\ DeleteSent(ru)
             st1 == IF updates THEN VendorOfficialUpdate(parent, body, ru) ELSE store
         IN  /\ init_ticktick_client(ACCESS_TOKEN, USER_ID)
             /\ store' = IF deletes THEN VendorDelete(st1, child, rd) ELSE st1
             /\ call' = [NoCall EXCEPT
                   !.n = call.n + 1, !.tool = "ticktick_convert_task_to_checklist_item",
                   !.task = child, !.found = fetched, !.fetched = child_task,
                   !.args = [parent |-> parent, rc |-> rc, rp |-> rp, ru |-> ru, rd |-> rd],
                   !.writes = (IF updates THEN <<Write("/task/" \o parent, "post", body)>> ELSE <<>>)
                              \o (IF deletes
                                  THEN <<Write("/project/p1/task/" \o child, "delete", EmptyDict)>>
                                  ELSE <<>>),
                   !.ret = ConvertReturn(rc, rp, sameProject, ru, rd)]
    /\ UNCHANGED <<bootVars, fileVars, cfgVars, unoffVars, co>>

\* ---- the Inbox (ticktick_client.py:50-55, 453-467; project_tools.py:116-146)

\* A variant that names the Inbox without the user id.
InboxIdWithoutUser(user_id) == IF Truthy(user_id) THEN "inbox" ELSE None

\* TickTickClient.inbox_id on the client's user_id:
\* `if self.user_id: return f"inbox{self.user_id}"`, else None.
InboxIdOf(user_id) == IF Truthy(user_id) THEN "inbox" \o user_id ELSE None

\* get_project_with_data: GET /project/{project_id}/data
DataEndpoint(project_id) == "/project/" \o project_id \o "/data"

\* `data.get("tasks", [])`
DataTasks(data) == DictGet(data, "tasks", <<>>)

\* The tool's return when the client has no inbox_id.
USER_ID_NOT_SET == [error |-> "TICKTICK_USER_ID not set. Cannot access Inbox without user ID."]

InboxTasks == <<[id |-> "i1"], [id |-> "i2"]>>
InboxAnswers ==
    {HttpResponse(200, JsonBody([tasks |-> InboxTasks])), HttpResponse(200, JsonBody([id |-> "inbox"])),
     HttpResponse(200, EmptyBody), HttpResponse(404, TextBody), RequestError}

\* ticktick_get_inbox_tasks
ticktick_get_inbox_tasks ==
    /\ phase = "serving"
    /\ \A p \in Procs : co[p].pc = "idle"
    /\ call.n < MaxCalls
    /\ \E ans \in InboxAnswers :
         LET base == [NoCall EXCEPT !.n = call.n + 1, !.tool = "ticktick_get_inbox_tasks",
                                    !.args = [answer |-> ans]]
             inbox_id == InboxIdOf(USER_ID)
             r == _request(DataEndpoint(inbox_id), ans)
         IN  IF NoAccessToken
             THEN /\ call' = [base EXCEPT !.ret = "error_not_authenticated", !.result = NOT_AUTHENTICATED]
                  /\ UNCHANGED offVars
             ELSE /\ init_ticktick_client(ACCESS_TOKEN, USER_ID)
                  /\ IF inbox_id = None
                     THEN call' = [base EXCEPT !.ret = "error_no_user_id", !.result = USER_ID_NOT_SET]
                     ELSE call' = [base EXCEPT
                            !.writes = <<Write(DataEndpoint(inbox_id), "get", EmptyDict)>>,
                            !.ret = CASE r.outcome = "api_error" -> "error"
                                      [] r.outcome = "value" -> "success"
                                      [] OTHER -> "exception",
                            !.result = CASE r.outcome = "api_error" -> ToolError(r)
                                         [] r.outcome = "value" ->
                                              [inbox_id |-> inbox_id, tasks |-> DataTasks(r.value),
                                               task_count |-> Len(DataTasks(r.value))]
                                         [] r.outcome = "none" -> Escapes("AttributeError")
                                         [] OTHER -> Escapes("JSONDecodeError")]
    /\ UNCHANGED <<bootVars, fileVars, cfgVars, unoffVars, co, store>>

\* TickTickClient.get_inbox_data, called on the client that
\* get_ticktick_client returns: ValueError without an inbox_id, else the
\* result of get_project_with_data or the exception it raises.
get_inbox_data ==
    /\ phase = "serving"
    /\ \A p \in Procs : co[p].pc = "idle"
    /\ call.n < MaxCalls
    /\ ~NoAccessToken
    /\ \E ans \in InboxAnswers :
         LET base == [NoCall EXCEPT !.n = call.n + 1, !.tool = "get_inbox_data",
                                    !.args = [answer |-> ans]]
             inbox_id == InboxIdOf(USER_ID)
             r == _request(DataEndpoint(inbox_id), ans)
         IN  /\ init_ticktick_client(ACCESS_TOKEN, USER_ID)
             /\ IF inbox_id = None
                THEN call' = [base EXCEPT !.ret = "exception", !.result = Escapes("ValueError")]
                ELSE call' = [base EXCEPT
                       !.writes = <<Write(DataEndpoint(inbox_id), "get", EmptyDict)>>,
                       !.ret = IF r.outcome \in {"value", "none"} THEN "success" ELSE "exception",
                       !.result = CASE r.outcome = "api_error" -> Escapes("TickTickAPIError")
                                    [] r.outcome = "exception" -> Escapes("JSONDecodeError")
                                    [] r.outcome = "none" -> EmptyDict
                                    [] OTHER -> r.value]
    /\ UNCHANGED <<bootVars, fileVars, cfgVars, unoffVars, co, store>>

\* ---- get_all_tasks (ticktick_client.py:469-495)

\* The projects the vendor may list, their tasks, and the answers to
\* GET /project and GET /project/{id}/data.
ListedProjects == {"pA", "pB", "pC"}
TasksOf(project_id) ==
    CASE project_id = "pA" -> <<[id |-> "a1"], [id |-> "a2"]>>
      [] project_id = "pB" -> <<[id |-> "b1"]>>
      [] OTHER -> <<[id |-> "c1"]>>
Listings ==
    {<<>>, <<[id |-> "pA"]>>, <<[id |-> "pB"], [id |-> "pA"]>>,
     <<[id |-> "pA"], [id |-> "pB"], [id |-> "pC"]>>}
ListingAnswers ==
    {HttpResponse(200, JsonBody(l)) : l \in Listings}
    \cup {HttpResponse(200, EmptyBody), HttpResponse(500, TextBody)}
DataAnswers(project_id) ==
    {HttpResponse(200, JsonBody([tasks |-> TasksOf(project_id)])), HttpResponse(200, EmptyBody),
     HttpResponse(500, TextBody), RequestError}

\* all_tasks, the requests made so far, and the exception that has left the
\* method ("none" while it runs).
NoTasksYet == [raised |-> "none", tasks |-> <<>>, requests |-> <<>>]

\* A variant of the loop body in which a failed fetch is fatal.
FetchIntoFatal(acc, project_id, ans) ==
    LET r == _request(DataEndpoint(project_id), ans)
        sent == [acc EXCEPT !.requests = Append(@, DataEndpoint(project_id))]
    IN  CASE r.outcome = "api_error" -> [sent EXCEPT !.raised = "TickTickAPIError"]
          [] r.outcome = "value" -> [sent EXCEPT !.tasks = @ \o DataTasks(r.value)]
          [] r.outcome = "none" -> [sent EXCEPT !.raised = "AttributeError"]
          [] OTHER -> [sent EXCEPT !.raised = "JSONDecodeError"]

\* `try: data = await self.get_project_with_data(id);
\*       all_tasks.extend(data.get("tasks", []))
\*  except TickTickAPIError: logger.warning(...)`
FetchInto(acc, project_id, ans) ==
    LET r == _request(DataEndpoint(project_id), ans)
        sent == [acc EXCEPT !.requests = Append(@, DataEndpoint(project_id))]
    IN  CASE r.outcome = "api_error" -> sent
          [] r.outcome = "value" -> [sent EXCEPT !.tasks = @ \o DataTasks(r.value)]
          [] r.outcome = "none" -> [sent EXCEPT !.raised = "AttributeError"]
          [] OTHER -> [sent EXCEPT !.raised = "JSONDecodeError"]

\* `for project in projects:` over the listing, in listing order.
RECURSIVE ProjectsLoop(_, _, _)
ProjectsLoop(acc, projects, answers) ==
    IF acc.raised # "none" \/ projects = <<>> THEN acc
    ELSE ProjectsLoop(FetchInto(acc, Head(projects).id, answers[Head(projects).id]),
                      Tail(projects), answers)

\* get_projects: `result if result else []`, or the exception of _request.
GetProjects(acc, ans) ==
    LET r == _request("/project", ans)
        sent == [acc EXCEPT !.requests = Append(@, "/project")]
    IN  CASE r.outcome = "api_error" -> [raised |-> "TickTickAPIError", projects |-> <<>>, acc |-> sent]
          [] r.outcome = "exception" -> [raised |-> "JSONDecodeError", projects |-> <<>>, acc |-> sent]
          [] r.outcome = "none" -> [raised |-> "none", projects |-> <<>>, acc |-> sent]
          [] OTHER -> [raised |-> "none", projects |-> r.value, acc |-> sent]

\* TickTickClient.get_all_tasks on a client with `user_id`.
GetAllTasks(user_id, inboxAns, listAns, dataAns) ==
    LET a1 == IF InboxIdOf(user_id) # None
              THEN FetchInto(NoTasksYet, InboxIdOf(user_id), inboxAns)
              ELSE NoTasksYet
        g == GetProjects(a1, listAns)
    IN  IF a1.raised # "none" THEN a1
        ELSE IF g.raised # "none" THEN [g.acc EXCEPT !.raised = g.raised]
        ELSE ProjectsLoop(g.acc, g.projects, dataAns)

\* The projects a listing answer names.
ListedIn(listAns) ==
    IF listAns.arrived /\ listAns.status < 400 /\ listAns.status # 204 /\ listAns.body.kind = "json"
    THEN {listAns.body.json[i].id : i \in DOMAIN listAns.body.json}
    ELSE {}
AllDataAnswers(ids) ==
    {f \in [ids -> UNION {DataAnswers(q) : q \in ids}] : \A q \in ids : f[q] \in DataAnswers(q)}

\* get_all_tasks called on the client that get_ticktick_client returns.  No
\* Inbox request is made without a user id; its answer is then immaterial.
get_all_tasks ==
    /\ phase = "serving"
    /\ \A p \in Procs : co[p].pc = "idle"
    /\ call.n < MaxCalls
    /\ ~NoAccessToken
    /\ \E inboxAns \in (IF InboxIdOf(USER_ID) = None THEN {RequestError} ELSE InboxAnswers),
          listAns \in ListingAnswers :
       \E dataAns \in AllDataAnswers(ListedIn(listAns)) :
         LET out == GetAllTasks(USER_ID, inboxAns, listAns, dataAns)
         IN  /\ init_ticktick_client(ACCESS_TOKEN, USER_ID)
             /\ call' = [NoCall EXCEPT
                   !.n = call.n + 1, !.tool = "get_all_tasks",
                   !.args = [inbox |-> inboxAns, listing |-> listAns, data |-> dataAns],
                   !.writes = [i \in DOMAIN out.requests |-> Write(out.requests[i], "get", EmptyDict)],
                   !.ret = IF out.raised = "none" THEN "success" ELSE "exception",
                   !.result = IF out.raised = "none" THEN [tasks |-> out.tasks]
                              ELSE Escapes(out.raised)]
    /\ UNCHANGED <<bootVars, fileVars, cfgVars, unoffVars, co, store>>

-----------------------------------------------------------------------------
(***************************************************************************)
(* The unofficial client's request methods (unofficial_client.py:262-568), *)
(* called on a client object whatever the state of its login.              *)
(***************************************************************************)

\* str(e) of a TickTickUnofficialAPIError
UnofficialErrorStr(status_code, message) ==
    "TickTick Unofficial API Error " \o ToString(status_code) \o ": " \o message

NOT_LOGGED_IN == "Not authenticated. Call login() first."

\* ticktick-py's http_get / http_post on the vendor's answer: the parsed body,
\* or an exception.  The library is not part of this repository: on an
\* answer that is not a 2xx JSON body it may raise or return what it got.
LibraryRaises(ans) ==
    IF ans.arrived /\ Success(ans.status) /\ ans.body.kind = "json" THEN {FALSE} ELSE BOOLEAN
LibraryText(ans) == "Could Not Complete Request"

\* A method's outcome: a value returned or an exception raised; `contacted`
\* tells whether the vendor was asked.
MethodReturns(value, contacted) ==
    [outcome |-> "value", exc |-> "none", status_code |-> -1, text |-> "",
     response_body |-> None, value |-> value, contacted |-> contacted]
MethodRaises(exc, status_code, text, contacted) ==
    [outcome |-> "raise", exc |-> exc, status_code |-> status_code, text |-> text,
     response_body |-> None, value |-> EmptyDict, contacted |-> contacted]

\* A variant of _sync_request without the authentication check.
SyncRequestUnguarded(authenticated, method, ans, raises) ==
    IF method \notin {"GET", "POST"}
    THEN MethodRaises("ValueError", -1, "Unsupported HTTP method: " \o method, FALSE)
    ELSE IF raises
    THEN MethodRaises("RuntimeError", -1, LibraryText(ans), TRUE)
    ELSE MethodReturns(ans.body.json, TRUE)

\* TickTickUnofficialClient._sync_request
_sync_request(authenticated, method, ans, raises) ==
    IF ~authenticated
    THEN MethodRaises("TickTickUnofficialAPIError", 401, UnofficialErrorStr(401, NOT_LOGGED_IN), FALSE)
    ELSE IF method \notin {"GET", "POST"}
    THEN MethodRaises("ValueError", -1, "Unsupported HTTP method: " \o method, FALSE)
    ELSE IF raises
    THEN MethodRaises("RuntimeError", -1, LibraryText(ans), TRUE)
    ELSE MethodReturns(ans.body.json, TRUE)

\* TickTickUnofficialClient._request: `except Exception as e: raise
\* TickTickUnofficialAPIError(status_code=0, message=f"Request failed: {str(e)}")`
UnofficialRequest(authenticated, method, ans, raises) ==
    LET r == _sync_request(authenticated, method, ans, raises)
    IN  IF r.outcome = "raise"
        THEN MethodRaises("TickTickUnofficialAPIError", 0,
                          UnofficialErrorStr(0, "Request failed: " \o r.text), r.contacted)
        ELSE r

\* TickTickUnofficialClient.get_task_activity
GetTaskActivity(authenticated, ans, raises) ==
    IF ~authenticated
    THEN MethodRaises("TickTickUnofficialAPIError", 401, UnofficialErrorStr(401, NOT_LOGGED_IN), FALSE)
    ELSE UnofficialRequest(authenticated, "GET", ans, raises)

\* The methods, the HTTP method and the endpoint each uses.
ClientMethods == {"_request", "_request_put", "pin_task", "batch_update_task", "get_task_activity"}
HttpMethodOf(m) ==
    CASE m \in {"_request", "get_task_activity"} -> "GET"
      [] m = "_request_put" -> "PUT"
      [] OTHER -> "POST"
EndpointOf(m) ==
    CASE m = "pin_task" -> "/batch/order"
      [] m = "batch_update_task" -> "/batch/task"
      [] m = "get_task_activity" -> "/api/v1/task/activity/t1"
      [] OTHER -> "/batch/check/0"
ClientMethod(m, authenticated, ans, raises) ==
    IF m = "get_task_activity" THEN GetTaskActivity(authenticated, ans, raises)
    ELSE UnofficialRequest(authenticated, HttpMethodOf(m), ans, raises)

VendorAnswers ==
    {HttpResponse(200, JsonBody([id2etag |-> "e1"])), HttpResponse(500, JsonBody([errorCode |-> "unknown"]))}

\* One call of a request method on client object i.  The generic request is
\* a GET ("_request") or uses a method the client does not support
\* ("_request_put"); batch_update_task sets repeatFrom on the first task.
\* The vendor's pin ordering is not part of its task records.
unofficial_request(i) ==
    /\ phase = "serving"
    /\ i \in DOMAIN uclients
    /\ \E m \in ClientMethods, ans \in VendorAnswers :
       \E raises \in LibraryRaises(ans) :
         LET r == ClientMethod(m, uclients[i].authenticated, ans, raises)
             data == BatchUpdateTaskData("t1", store["t1"].projectId, RepeatFromUpdates("1"))
         IN  /\ call' = [NoCall EXCEPT
                   !.tool = m,
                   !.args = [client |-> i, login |-> uclients[i].login, answer |-> ans, raises |-> raises],
                   !.writes = IF r.contacted
                              THEN <<Write(EndpointOf(m), HttpMethodOf(m),
                                           IF m = "batch_update_task" THEN data ELSE EmptyDict)>>
                              ELSE <<>>,
                   !.ret = IF r.outcome = "value" THEN "success" ELSE "exception",
                   !.result = r]
             /\ store' = IF r.contacted /\ m = "batch_update_task" /\ Success(ans.status)
                         THEN VendorBatchUpdate(data, "ok")
                         ELSE store
    /\ UNCHANGED <<bootVars, fileVars, cfgVars, unoffVars, offVars, co>>

-----------------------------------------------------------------------------
(***************************************************************************)
(* The OAuth callback route (main.py:54-96).                               *)
(***************************************************************************)

\* starlette's JSONResponse(content, status_code=...), 200 by default.
JSONResponse(content, status_code) == [status_code |-> status_code, content |-> content]

TOKEN_URL == "https://ticktick.com/oauth/token"

\* The `code` query parameter, and the vendor's answers to the exchange.
CallbackCodes == {None, "", "abc"}
ExchangeAnswers ==
    {HttpResponse(200, JsonBody([access_token |-> "tokD", expires_in |-> 100])),
     HttpResponse(400, JsonBody([error |-> "invalid_grant"])),
     HttpResponse(200, JsonBody([error |-> "invalid_grant"])),
     HttpResponse(502, TextBody),
     HttpResponse(200, EmptyBody),
     RequestError}

\* What the route gives back: `client.post` raising httpx.RequestError and
\* `response.json()` raising JSONDecodeError are caught nowhere in the route.
CallbackResult(code, ans) ==
    IF ~Truthy(code)
    THEN JSONResponse([error |-> "No authorization code received"], 400)
    ELSE IF ~ans.arrived THEN Escapes("RequestError")
    ELSE IF ans.body.kind # "json" THEN Escapes("JSONDecodeError")
    ELSE IF "access_token" \in DOMAIN ans.body.json
    THEN JSONResponse([success |-> TRUE, access_token |-> ans.body.json.access_token], 200)
    ELSE JSONResponse([error |-> "Failed to get access token", details |-> ans.body.json], 400)

\* `if "access_token" in token_data`, reached only when the exchange returned JSON.
TokenGranted(code, ans) ==
    Truthy(code) /\ ans.arrived /\ ans.body.kind = "json" /\ "access_token" \in DOMAIN ans.body.json

oauth_callback ==
    /\ phase = "serving"
    /\ \A p \in Procs : co[p].pc = "idle"
    /\ call.n < MaxCalls
    /\ \E code \in CallbackCodes, ans \in ExchangeAnswers, wrote \in BOOLEAN :
         /\ call' = [NoCall EXCEPT
                       !.n = call.n + 1, !.tool = "oauth_callback",
                       !.args = [code |-> code, answer |-> ans],
                       !.writes = IF Truthy(code)
                                  THEN <<Write(TOKEN_URL, "post",
                                               [client_id |-> CLIENT_ID, client_secret |-> CLIENT_SECRET,
                                                code |-> code, grant_type |-> "authorization_code",
                                                redirect_uri |-> REDIRECT_URI])>>
                                  ELSE <<>>,
                       !.ret = IF TokenGranted(code, ans) THEN "success"
                               ELSE IF "exception" \in DOMAIN CallbackResult(code, ans) THEN "exception"
                               ELSE "error",
                       !.result = CallbackResult(code, ans)]
         /\ IF TokenGranted(code, ans)
            THEN /\ ACCESS_TOKEN' = ans.body.json.access_token
                 /\ tokenCacheFile' =
                      IF wrote
                      THEN [exists |-> TRUE, ok |-> TRUE, access_token |-> ans.body.json.access_token]
                      ELSE tokenCacheFile
                 /\ init_ticktick_client(ans.body.json.access_token, USER_ID)
            ELSE UNCHANGED <<ACCESS_TOKEN, tokenCacheFile, offVars>>
    /\ UNCHANGED <<bootVars, oauthCacheFile, CLIENT_ID, CLIENT_SECRET, REDIRECT_URI, USER_ID,
                   USERNAME, PASSWORD, IS_CLOUD_DEPLOYMENT, UNOFFICIAL_TOKEN_CACHE_PATH,
                   unoffVars, co, store>>

-----------------------------------------------------------------------------
(***************************************************************************)
(* Initial states and specifications.                                      *)
(***************************************************************************)

BootTime == 1000

\* Module-level values before _load_env_vars has run (config.py:70-84,
\* ticktick_client.py:499, unofficial_client.py:572), with an empty vendor log.
InitGlobals ==
    /\ phase = "boot"
    /\ exitCode = -1
    /\ bootTime = BootTime
    /\ CLIENT_ID = "" /\ CLIENT_SECRET = "" /\ REDIRECT_URI = ""
    /\ ACCESS_TOKEN = None /\ USER_ID = None /\ USERNAME = None /\ PASSWORD = None
    /\ IS_CLOUD_DEPLOYMENT = FALSE
    /\ UNOFFICIAL_TOKEN_CACHE_PATH = HOME_TOKEN_OAUTH
    /\ _unofficial_client_initialized = FALSE
    /\ _unofficial_client = 0
    /\ uclients = <<>>
    /\ _client = 0
    /\ oclients = [i \in OfficialSlots |-> FreeSlot]
    /\ co = [p \in Procs |-> Idle]
    /\ oauthCacheFile = [path \in OAuthCachePaths |-> NoFile]
    /\ call = NoCall

\* The vendor's records when the process starts.
Item(id, title) == [id |-> id, title |-> title, status |-> 0]
Task1(content, items) ==
    [id |-> "t1", projectId |-> "p1", title |-> "Plan trip", content |-> content,
     status |-> 0, dueDate |-> "2026-02-08T00:00:00.000+0100", timeZone |-> "Europe/Paris",
     tags |-> <<"travel">>, items |-> items]
Task2 ==
    [id |-> "t2", projectId |-> "p1", title |-> "Holidays", content |-> "",
     status |-> 0, tags |-> <<>>, items |-> <<>>]
Project1 == [id |-> "p1", name |-> "Travel", color |-> "#35D870", viewMode |-> "list"]
StoreOf(task1) ==
    [x \in TaskIds \cup ProjectIds |->
        IF x = "t1" THEN task1 ELSE IF x = "t2" THEN Task2 ELSE Project1]
InitStores ==
    {StoreOf(Task1(c, its)) : c \in {"", "notes"}, its \in {<<>>, <<Item(1, "book")>>}}

\* Environments in which the three OAuth variables are set in the process
\* environment and no dotenv file or token cache exists.
NoDotenv == [exists |-> FALSE, vars |-> [k \in EnvKeys |-> None]]
NoTokenCache == [exists |-> FALSE, ok |-> FALSE, access_token |-> None]
ConfiguredEnvs ==
    {[k \in EnvKeys |->
        CASE k \in OAuthKeys -> "set"
          [] k = "TICKTICK_ACCESS_TOKEN" -> tok
          [] k = "TICKTICK_USER_ID" -> "u1"
          [] k = "TICKTICK_USERNAME" -> user
          [] k = "TICKTICK_PASSWORD" -> pw
          [] OTHER -> None] :
        tok \in {None, "tokA"}, user \in {None, "me@example.com"}, pw \in {None, "secret"}}

\* The environment with every variable set, in the process environment.
FullEnv ==
    [k \in EnvKeys |->
        CASE k \in OAuthKeys -> "set"
          [] k = "TICKTICK_ACCESS_TOKEN" -> "tokA"
          [] k = "TICKTICK_USER_ID" -> "u1"
          [] k = "TICKTICK_USERNAME" -> "me@example.com"
          [] k = "TICKTICK_PASSWORD" -> "secret"
          [] OTHER -> None]

Init ==
    /\ InitGlobals
    /\ env \in ConfiguredEnvs
    /\ dotenvFile = NoDotenv
    /\ tokenCacheFile = NoTokenCache
    /\ store \in InitStores

\* Startup followed by unofficial tool invocations on Procs coroutines.
Next ==
    \/ _load_env_vars
    \/ \E p \in Procs : unofficial_tool_call(p)
    \/ \E p \in Procs : _sync_login(p)
    \/ \E p \in Procs : login_returns(p)

Spec == Init /\ [][Next]_vars

\* ---- startup alone, over every shape of environment, dotenv file and cache

StartupEnvs ==
    {[k \in EnvKeys |->
        CASE k = "TICKTICK_CLIENT_ID" -> id
          [] k = "TICKTICK_CLIENT_SECRET" -> secret
          [] k = "TICKTICK_REDIRECT_URI" -> uri
          [] k = "TICKTICK_ACCESS_TOKEN" -> tok
          [] k = "TICKTICK_OAUTH_TOKEN" -> blob
          [] k = "TICKTICK_USER_ID" -> uid
          [] OTHER -> None] :
        id \in {None, "", "set"}, secret \in {None, "", "set"}, uri \in {None, "", "set"},
        tok \in {None, "tokA"}, blob \in {None, "json:tokB+100", "json:100", "{not json", "json:[1]"},
        uid \in {None, "u1"}}
DotenvVars(id, secret, uri, tok) ==
    [k \in EnvKeys |->
        CASE k = "TICKTICK_CLIENT_ID" -> id
          [] k = "TICKTICK_CLIENT_SECRET" -> secret
          [] k = "TICKTICK_REDIRECT_URI" -> uri
          [] k = "TICKTICK_ACCESS_TOKEN" -> tok
          [] OTHER -> None]
DotenvFiles ==
    {NoDotenv} \cup
    {[exists |-> TRUE, vars |-> DotenvVars(id, secret, uri, tok)] :
        id \in {None, "file"}, secret \in {None, "file"}, uri \in {None, "", "file"},
        tok \in {None, "tokF"}}
TokenCaches ==
    {NoTokenCache,
     [exists |-> TRUE, ok |-> TRUE, access_token |-> "tokC"],
     [exists |-> TRUE, ok |-> FALSE, access_token |-> None]}

InitStartup ==
    /\ InitGlobals
    /\ env \in StartupEnvs
    /\ dotenvFile \in DotenvFiles
    /\ tokenCacheFile \in TokenCaches
    /\ store = StoreOf(Task1("notes", <<>>))

NextStartup == _load_env_vars

SpecStartup == InitStartup /\ [][NextStartup]_vars

\* ---- startup, the OAuth callback's save_tokens, and official tool invocations

NextOfficial ==
    \/ _load_env_vars
    \/ save_tokens
    \/ \E p \in Procs : official_tool_call(p)
    \/ \E p \in Procs : official_tool_returns(p)

OfficialEnvs ==
    {[FullEnv EXCEPT !["TICKTICK_ACCESS_TOKEN"] = tok, !["TICKTICK_USER_ID"] = uid] :
        tok \in {None, "tokA"}, uid \in {None, "u1"}}

InitOfficial ==
    /\ InitGlobals
    /\ env \in OfficialEnvs
    /\ dotenvFile = NoDotenv
    /\ tokenCacheFile \in TokenCaches
    /\ store = StoreOf(Task1("notes", <<>>))

SpecOfficial == InitOfficial /\ [][NextOfficial]_vars

\* ---- the tool layers once the unofficial session is authenticated

\* The state Spec reaches when every variable is configured and the first
\* unofficial tool invocation has logged in.
LoggedIn ==
    /\ phase = "serving"
    /\ exitCode = -1
    /\ bootTime = BootTime
    /\ env = FullEnv
    /\ dotenvFile = NoDotenv
    /\ tokenCacheFile = NoTokenCache
    /\ CLIENT_ID = "set" /\ CLIENT_SECRET = "set" /\ REDIRECT_URI = "set"
    /\ ACCESS_TOKEN = "tokA" /\ USER_ID = "u1"
    /\ USERNAME = "me@example.com" /\ PASSWORD = "secret"
    /\ IS_CLOUD_DEPLOYMENT = FALSE
    /\ UNOFFICIAL_TOKEN_CACHE_PATH = HOME_TOKEN_OAUTH
    /\ _unofficial_client_initialized = TRUE
    /\ _unofficial_client = 1
    /\ uclients = <<[authenticated |-> TRUE, attempts |-> 1, login |-> "ok"]>>
    /\ oauthCacheFile = [path \in OAuthCachePaths |->
                           IF path = HOME_TOKEN_OAUTH THEN WriteTokenCache("tokA", BootTime)
                           ELSE NoFile]
    /\ _client = 0
    /\ oclients = [i \in OfficialSlots |-> FreeSlot]
    /\ co = [p \in Procs |-> [Idle EXCEPT !.obj = IF p = 1 THEN 1 ELSE 0,
                                          !.ret = IF p = 1 THEN "success" ELSE "none",
                                          !.sent = (p = 1)]]
    /\ call = NoCall

InitUnofficialTools == LoggedIn /\ store \in InitStores

NextUnofficialTools ==
    \/ unofficial_pin_task
    \/ unofficial_unpin_task
    \/ set_repeat_from
    \/ unofficial_add_checklist_item
    \/ unofficial_remove_checklist_item
    \/ unofficial_make_subtask
    \/ unofficial_remove_subtask

SpecUnofficialTools == InitUnofficialTools /\ [][NextUnofficialTools]_vars

\* A completed, recurring task for the update tools to work on.
TaskDone ==
    DictMerge(Task1("notes", <<Item(1, "book")>>),
              [status |-> 2, completedTime |-> "2026-02-01T09:00:00.000+0000",
               repeatFlag |-> "RRULE:FREQ=DAILY", repeatFrom |-> "1"])

InitUpdate == LoggedIn /\ store \in {StoreOf(Task1("notes", <<Item(1, "book")>>)), StoreOf(TaskDone)}

NextUpdate ==
    \/ unofficial_update_task
    \/ ticktick_update_task
    \/ ticktick_update_project

SpecUpdate == InitUpdate /\ [][NextUpdate]_vars

\* ---- cloud deployments: startup with the token blob, then the unofficial
\* session's lazy initialisation

CloudEnvs ==
    {[FullEnv EXCEPT !["TICKTICK_ACCESS_TOKEN"] = tok, !["TICKTICK_OAUTH_TOKEN"] = blob] :
        tok \in {None, "tokA"}, blob \in {None, "json:tokB+100", "json:tokB", "{not json"}}

InitCloud ==
    /\ InitGlobals
    /\ env \in CloudEnvs
    /\ dotenvFile = NoDotenv
    /\ tokenCacheFile = NoTokenCache
    /\ store = StoreOf(Task1("notes", <<>>))

SpecCloud == InitCloud /\ [][Next]_vars

\* ---- everything that runs after startup: the unofficial session and its
\* tools, save_tokens, and an official tool

NextConfig ==
    \/ Next
    \/ save_tokens
    \/ call.n = 0 /\ ticktick_complete_task

InitConfig ==
    /\ InitCloud
    /\ env["TICKTICK_OAUTH_TOKEN"] \in {None, "json:tokB+100"}

SpecConfig == InitConfig /\ [][NextConfig]_vars

\* ---- subtask relationships; the second task may be in another project

InitSubtasks ==
    /\ LoggedIn
    /\ store \in {[st EXCEPT !["t2"] = DictSet(@, "projectId", pr)] : st \in InitStores, pr \in {"p1", "p2"}}

NextSubtasks == unofficial_make_subtask \/ unofficial_remove_subtask

SpecSubtasks == InitSubtasks /\ [][NextSubtasks]_vars

\* ---- checklist items, with two invocations that may overlap

NextChecklist ==
    \/ \E p \in Procs : checklist_fetch(p)
    \/ \E p \in Procs : checklist_write(p)
    \/ unofficial_remove_checklist_item

SpecChecklist == InitUnofficialTools /\ [][NextChecklist]_vars

\* ---- converting a task into a checklist item of another

NextConvert == ticktick_convert_task_to_checklist_item

SpecConvert == InitUnofficialTools /\ [][NextConvert]_vars

\* ---- creating and updating tasks through the unofficial tools

NextRecurrence ==
    \/ unofficial_create_task
    \/ unofficial_update_task

SpecRecurrence == InitUpdate /\ [][NextRecurrence]_vars

\* ---- startup, then official tools and client methods run one at a time

CallEnvs ==
    {[FullEnv EXCEPT !["TICKTICK_ACCESS_TOKEN"] = tok, !["TICKTICK_USER_ID"] = uid] :
        tok \in {None, "tokA"}, uid \in {None, "", "115085635"}}

InitOfficialCalls ==
    /\ InitGlobals
    /\ env \in CallEnvs
    /\ dotenvFile = NoDotenv
    /\ tokenCacheFile = NoTokenCache
    /\ store = StoreOf(Task1("notes", <<>>))

NextOfficialCalls ==
    \/ _load_env_vars
    \/ ticktick_complete_task
    \/ ticktick_get_inbox_tasks
    \/ get_inbox_data
    \/ get_all_tasks

SpecOfficialCalls == InitOfficialCalls /\ [][NextOfficialCalls]_vars

\* ---- startup, the OAuth callback's save_tokens, and official tools run one
\* at a time

NextOfficialAuth ==
    \/ _load_env_vars
    \/ save_tokens
    \/ ticktick_complete_task
    \/ ticktick_get_inbox_tasks

InitOfficialAuth ==
    /\ InitGlobals
    /\ env \in CallEnvs
    /\ dotenvFile = NoDotenv
    /\ tokenCacheFile \in TokenCaches
    /\ store = StoreOf(Task1("notes", <<>>))

SpecOfficialAuth == InitOfficialAuth /\ [][NextOfficialAuth]_vars

\* ---- startup, the OAuth callback route, and an official tool

NextOAuth ==
    \/ _load_env_vars
    \/ oauth_callback
    \/ ticktick_complete_task

SpecOAuth == InitOfficialAuth /\ [][NextOAuth]_vars

\* ---- single-request tools and client methods of both sessions, with the
\* vendor's answers; the unofficial client's methods run before the tools

NextNoRetry ==
    \/ ticktick_create_task
    \/ ticktick_complete_task
    \/ call.n = 0 /\ unofficial_request(1)

SpecNoRetry == InitUpdate /\ [][NextNoRetry]_vars

\* ---- the unofficial session, with request methods called on its clients

InitUnofficialRequests ==
    /\ InitGlobals
    /\ env = [FullEnv EXCEPT !["TICKTICK_ACCESS_TOKEN"] = None]
    /\ dotenvFile = NoDotenv
    /\ tokenCacheFile = NoTokenCache
    /\ store = StoreOf(Task1("notes", <<>>))

NextUnofficialRequests ==
    \/ Next
    \/ \E i \in 1 .. MaxUnofficialClients : unofficial_request(i)

SpecUnofficialRequests == InitUnofficialRequests /\ [][NextUnofficialRequests]_vars

-----------------------------------------------------------------------------
(***************************************************************************)
(* Properties of startup and of the unofficial session.                    *)
(***************************************************************************)

OAuthSetInEnv == \A k \in OAuthKeys : Truthy(env[k])
UnofficialCredsUnsetInEnv ==
    ~Truthy(env["TICKTICK_USERNAME"]) \/ ~Truthy(env["TICKTICK_PASSWORD"])

\* C5: with the three OAuth variables set and the username or the password
\* unset, startup completes (the process never exits), and every unofficial
\* tool invocation has returned the not-configured error object: no coroutine
\* is left inside a login, no request was sent, no client object was ever
\* constructed, and every coroutine is idle again, free to serve the next call.
C5_NotConfiguredIsAnError ==
    (OAuthSetInEnv /\ UnofficialCredsUnsetInEnv /\ phase # "boot") =>
        /\ phase = "serving"
        /\ uclients = <<>>
        /\ _unofficial_client = 0
        /\ \A p \in Procs :
             /\ co[p].pc = "idle"
             /\ co[p].ret \in {"none", "error_not_configured"}
             /\ ~co[p].sent

\* C5, its case: the password alone is unset and a tool has been invoked.
C5_Witness ==
    /\ phase = "serving"
    /\ Truthy(env["TICKTICK_USERNAME"]) /\ ~Truthy(env["TICKTICK_PASSWORD"])
    /\ \A p \in Procs : co[p].ret = "error_not_configured"

\* C6: once startup has run, an OAuth variable still missing or empty after
\* the environment and the dotenv fallback means the process has exited with a
\* non-zero status; and whenever tools are served the three values are
\* non-empty.
C6_FailFast ==
    /\ (phase # "boot" /\ \E k \in OAuthKeys : ~Truthy(env[k])) =>
          (phase = "exited" /\ exitCode > 0)
    /\ phase = "serving" =>
          (Truthy(CLIENT_ID) /\ Truthy(CLIENT_SECRET) /\ Truthy(REDIRECT_URI))

\* C6, its case: the dotenv fallback was read and set a variable, one of the
\* three is still missing, and the process has exited.
C6_Witness ==
    /\ phase = "exited" /\ exitCode = 1
    /\ dotenvFile.exists /\ DotenvLoaded(dotenvFile)
    /\ env["TICKTICK_CLIENT_ID"] = "file"
    /\ ~Truthy(env["TICKTICK_REDIRECT_URI"])

\* C7: a login failure is reported only once three attempts have been made on
\* that client.
C7_FailureOnlyAfterThreeAttempts ==
    \A i \in DOMAIN uclients : uclients[i].login = "failed" => uclients[i].attempts = 3

\* C8: once a login has failed and its failure has been returned to the caller
\* (no invocation is in flight), no later call issues a login: no client is
\* constructed and no coroutine goes to the vendor.
C8_NoLoginAfterFailure ==
    [][((\E i \in DOMAIN uclients : uclients[i].login = "failed")
            /\ \A p \in Procs : co[p].pc = "idle") =>
          /\ Len(uclients') = Len(uclients)
          /\ \A p \in Procs : co'[p].pc # "login"]_vars

\* C9: at most one coroutine is inside init_unofficial_client with its login
\* in flight.
C9_OneLoginInFlight ==
    Cardinality({p \in Procs : co[p].pc = "login"}) <= 1

\* C4: no exception ever leaves a tool function: every invocation that has
\* ended returned its success payload or an error object.
C4_NoExceptionEscapes ==
    \A p \in Procs : co[p].ret \in {"none", "success", "error", "error_not_authenticated"}

\* C10: apart from save_tokens, no step replaces the official session object
\* once there is one: every get_ticktick_client call returns that instance.
C10_OfficialClientReused ==
    [][(_client # 0 /\ ~save_tokens) => _client' = _client]_vars

-----------------------------------------------------------------------------
(***************************************************************************)
(* Properties of the tool layer.                                           *)
(***************************************************************************)

\* The records of the last invocation sent to the batch update endpoint.
UpdatesSent == {call.writes[i].body : i \in {j \in DOMAIN call.writes : call.writes[j].endpoint = BATCH_TASK}}

\* Fields every stored task has when the process starts.
CoreFields == {"id", "projectId", "title", "content", "status", "tags", "items"}

\* C1: every record an unofficial mutation operation sends to the batch
\* update endpoint follows a fetch and has every field of the fetched record,
\* and so no stored task ever loses a field it had.
C1_FetchThenResendWhole ==
    /\ \A body \in UpdatesSent : call.found /\ DOMAIN call.fetched \subseteq DOMAIN body
    /\ \A id \in TaskIds : CoreFields \subseteq DOMAIN store[id]

\* C2: the pin and unpin tools send, after a fetch that returned a task, one
\* batch update whose record equals the fetched one in every field but
\* pinnedTime, which is the timestamp (pin) or "-1" (unpin); after a fetch
\* that returned no task they send nothing and return an error.
C2_PinResendsFetched ==
    call.tool \in {"unofficial_pin_task", "unofficial_unpin_task"} =>
        IF call.found
        THEN /\ Len(call.writes) = 1
             /\ call.writes[1].endpoint = BATCH_TASK
             /\ DOMAIN call.writes[1].body = DOMAIN call.fetched \cup {"pinnedTime"}
             /\ \A f \in DOMAIN call.fetched \ {"pinnedTime"} :
                  call.writes[1].body[f] = call.fetched[f]
             /\ call.writes[1].body.pinnedTime =
                  IF call.tool = "unofficial_pin_task" THEN call.args.now ELSE "-1"
        ELSE /\ call.writes = <<>>
             /\ call.ret \in {"error_not_found", "error_exception"}

\* C2, its case: a task with non-empty content has been pinned, and the
\* vendor's record still has that content.
C2_Witness ==
    /\ call.tool = "unofficial_pin_task" /\ call.ret = "success"
    /\ DictGet(call.fetched, "content", "") = "notes"
    /\ DictGet(store["t1"], "content", "") = "notes"
    /\ store["t1"].pinnedTime = call.args.now

\* The record fields an argument of unofficial_update_task names.
OwnField(param) ==
    CASE param = "title" -> {"title"}
      [] param = "due_date" -> {"dueDate"}
      [] param = "status" -> {"status"}
      [] param = "time_zone" -> {"timeZone"}
      [] param = "tags" -> {"tags"}
      [] param = "name" -> {"name"}
      [] param = "color" -> {"color"}
      [] param = "repeat_flag" -> {"repeatFlag"}
      [] param = "repeat_from" -> {"repeatFrom"}
      [] OTHER -> {"repeatFlag", "repeatFirstDate", "repeatFrom"}
OwnFields(sup) == UNION {OwnField(param) : param \in sup}

\* The fields unofficial_update_task derives from supplied arguments.
DerivedFields(args) ==
    (IF "due_date" \in args.supplied THEN {"timeZone"} ELSE {})
    \cup (IF "status" \in args.supplied /\ args.status = 0 THEN {"completedTime"} ELSE {})

\* The record sent equals the fetched one outside `touched`.
SameOutside(touched) ==
    /\ DOMAIN call.writes[1].body \subseteq DOMAIN call.fetched \cup touched
    /\ \A f \in DOMAIN call.fetched \ touched :
          f \in DOMAIN call.writes[1].body /\ call.writes[1].body[f] = call.fetched[f]

\* The official bodies: the identifiers (update_task) and the supplied
\* arguments' fields, none of them a null or empty placeholder.
OfficialBodiesMinimal ==
    /\ (call.tool = "ticktick_update_task" /\ call.writes # <<>>) =>
          /\ DOMAIN call.writes[1].body \subseteq {"id", "projectId"} \cup OwnFields(call.args.supplied)
          /\ \A f \in DOMAIN call.writes[1].body \ {"tags"} : Truthy(call.writes[1].body[f])
    /\ (call.tool = "ticktick_update_project" /\ call.writes # <<>>) =>
          /\ DOMAIN call.writes[1].body \subseteq OwnFields(call.args.supplied)
          /\ \A f \in DOMAIN call.writes[1].body : Truthy(call.writes[1].body[f])

\* A title-only update leaves every other field of the vendor's record as it was.
TitleOnlyKeepsTheRest ==
    (call.tool \in {"unofficial_update_task", "ticktick_update_task"}
        /\ call.args.supplied = {"title"} /\ call.task \in TaskIds) =>
        \A f \in DOMAIN call.fetched \ {"title"} :
            f \in DOMAIN store[call.task] /\ store[call.task][f] = call.fetched[f]

-----------------------------------------------------------------------------
(***************************************************************************)
(* Properties of the official client's requests.                           *)
(***************************************************************************)

\* C11: whenever the vendor answers ticktick_complete_task's request with a
\* status outside 200..299, the tool returns {error, status_code} with that
\* status and never a success; the local not-authenticated error carries no
\* status_code.
C11_NonSuccessStatusIsAnError ==
    /\ (call.tool = "ticktick_complete_task" /\ call.writes # <<>>
           /\ call.args.answer.arrived /\ ~Success(call.args.answer.status)) =>
          /\ call.ret = "error"
          /\ DOMAIN call.result = {"error", "status_code"}
          /\ call.result.status_code = call.args.answer.status
    /\ call.ret = "error_not_authenticated" => DOMAIN call.result = {"error"}

\* An answer with which a fetch fails (an error status, or no response at
\* all), and one with which it succeeds (a 2xx JSON object).
Fails(ans) == ~ans.arrived \/ ans.status >= 400
Succeeds(ans) == ans.arrived /\ Success(ans.status) /\ ans.status # 204 /\ ans.body.kind = "json"

\* The tasks of the listed projects whose fetch succeeded, in listing order.
RECURSIVE TasksOfSucceeded(_, _)
TasksOfSucceeded(projects, answers) ==
    IF projects = <<>> THEN <<>>
    ELSE (IF Succeeds(answers[Head(projects).id])
          THEN DictGet(answers[Head(projects).id].body.json, "tasks", <<>>)
          ELSE <<>>)
         \o TasksOfSucceeded(Tail(projects), answers)

\* The Inbox part of get_all_tasks' result and of its requests.
InboxPart(user_id, ans) ==
    IF Truthy(user_id) /\ Succeeds(ans) THEN DictGet(ans.body.json, "tasks", <<>>) ELSE <<>>
InboxRequest(user_id) ==
    IF Truthy(user_id) THEN <<"/project/inbox" \o user_id \o "/data">> ELSE <<>>

C15_InboxIdFromUserId ==
    (call.tool \in {"ticktick_get_inbox_tasks", "get_inbox_data"}
        /\ call.ret # "error_not_authenticated") =>
        IF Truthy(USER_ID)
        THEN /\ Len(call.writes) = 1
             /\ call.writes[1].endpoint = "/project/inbox" \o USER_ID \o "/data"
             /\ USER_ID = "115085635" => call.writes[1].endpoint = "/project/inbox115085635/data"
             /\ call.ret = "success" => (call.tool = "ticktick_get_inbox_tasks" =>
                                            call.result.inbox_id = "inbox" \o USER_ID)
        ELSE /\ call.writes = <<>>
             /\ call.tool = "ticktick_get_inbox_tasks" =>
                   (call.ret = "error_no_user_id" /\ call.result = USER_ID_NOT_SET)
             /\ call.tool = "get_inbox_data" =>
                   (call.ret = "exception" /\ call.result = Escapes("ValueError"))

\* C15, its case: with user id 115085635 the tool has fetched the Inbox, and
\* the request named inbox115085635.
C15_Witness ==
    /\ call.tool = "ticktick_get_inbox_tasks" /\ call.ret = "success"
    /\ USER_ID = "115085635"
    /\ call.writes[1].endpoint = "/project/inbox115085635/data"
    /\ call.result.inbox_id = "inbox115085635"
    /\ call.result.task_count = 2

-----------------------------------------------------------------------------
(***************************************************************************)
(* Properties of the unofficial client's requests.                         *)
(***************************************************************************)

\* C12: the generic request returns the parsed JSON body on a 2xx answer,
\* and on an answer with another status raises TickTickUnofficialAPIError
\* whose status_code is the vendor's status.
C12_ErrorCarriesVendorStatus ==
    (call.tool = "_request" /\ call.writes # <<>>) =>
        IF Success(call.args.answer.status)
        THEN call.result.outcome = "value" /\ call.result.value = call.args.answer.body.json
        ELSE /\ call.result.outcome = "raise"
             /\ call.result.exc = "TickTickUnofficialAPIError"
             /\ call.result.status_code = call.args.answer.status

\* C13: a request method called on a client whose login has not succeeded
\* raises a not-authenticated error and the vendor is not contacted; the
\* vendor is contacted only by a client whose login had succeeded; a client
\* is authenticated only once a login on it has succeeded; and a tool sends
\* its request only through an authenticated client.
C13_NoRequestBeforeLogin ==
    /\ (call.tool \in ClientMethods /\ call.args.login # "ok") =>
          /\ call.writes = <<>>
          /\ ~call.result.contacted
          /\ call.result.outcome = "raise"
          /\ call.result.exc = "TickTickUnofficialAPIError"
          /\ call.result.text \in
                {UnofficialErrorStr(401, NOT_LOGGED_IN),
                 UnofficialErrorStr(0, "Request failed: " \o UnofficialErrorStr(401, NOT_LOGGED_IN))}
    /\ (call.tool \in ClientMethods /\ call.writes # <<>>) =>
          (call.args.login = "ok" /\ uclients[call.args.client].authenticated)
    /\ \A i \in DOMAIN uclients :
          uclients[i].authenticated => (uclients[i].login = "ok" /\ uclients[i].attempts >= 1)
    /\ \A p \in Procs : co[p].sent => IsAuthenticated(co[p].obj)

\* C13, its case: a batch update was called on a client whose login is still
\* in flight; it raised, nothing was sent and the task record is untouched,
\* while another client of the run is authenticated.
C13_Witness ==
    /\ call.tool = "batch_update_task" /\ call.args.login = "pending"
    /\ call.ret = "exception" /\ call.writes = <<>>
    /\ "repeatFrom" \notin DOMAIN store["t1"]
    /\ \E i \in DOMAIN uclients : uclients[i].authenticated

-----------------------------------------------------------------------------
(***************************************************************************)
(* Properties of the recurrence fields.                                    *)
(***************************************************************************)

\* The YYYYMMDD forms of `dates` in ascending order: the earliest first, then
\* the rest likewise.
Earliest(dates) ==
    CHOOSE i \in DOMAIN dates :
        \A j \in DOMAIN dates : ~DateBefore(dates[j], dates[i]) /\ (dates[j] = dates[i] => i <= j)
RECURSIVE AscendingCompact(_)
AscendingCompact(dates) ==
    IF dates = <<>> THEN <<>>
    ELSE <<CompactDate(dates[Earliest(dates)])>>
         \o AscendingCompact([i \in 1 .. (Len(dates) - 1) |->
                                 IF i < Earliest(dates) THEN dates[i] ELSE dates[i + 1]])
ExpectedErule(dates) == "ERULE:NAME=CUSTOM;BYDATE=" \o Join(AscendingCompact(dates))

\* The record the last create or update invocation sent.
SentTask == call.writes[1].body
RecurrenceTools == {"unofficial_create_task", "unofficial_update_task"}

\* C16: whenever a non-empty specific_dates is supplied to
\* unofficial_create_task or unofficial_update_task, the task sent has
\* repeatFlag = ERULE:NAME=CUSTOM;BYDATE= followed by the dates ascending,
\* each as YYYYMMDD, joined by commas, and repeatFirstDate = the earliest date
\* followed by T05:00:00.000+0000, whatever the order the dates were given in;
\* ["2026-02-10", "2026-02-05"] gives BYDATE=20260205,20260210 and
\* 2026-02-05T05:00:00.000+0000.
C16_EruleSortedWithFirstDate ==
    (call.tool \in RecurrenceTools /\ call.writes # <<>>
        /\ "specific_dates" \in call.args.supplied /\ call.args.specific_dates # <<>>) =>
        /\ SentTask.repeatFlag = ExpectedErule(call.args.specific_dates)
        /\ SentTask.repeatFirstDate =
              call.args.specific_dates[Earliest(call.args.specific_dates)] \o "T05:00:00.000+0000"
        /\ call.args.specific_dates \in {<<"2026-02-10", "2026-02-05">>, <<"2026-02-05", "2026-02-10">>} =>
              /\ SentTask.repeatFlag = "ERULE:NAME=CUSTOM;BYDATE=20260205,20260210"
              /\ SentTask.repeatFirstDate = "2026-02-05T05:00:00.000+0000"

\* C16, its case: an update given the dates latest first has stored the
\* ascending ERULE on the task.
C16_Witness ==
    /\ call.tool = "unofficial_update_task" /\ call.ret = "success"
    /\ call.args.specific_dates = <<"2026-02-10", "2026-02-05">>
    /\ store["t1"].repeatFlag = "ERULE:NAME=CUSTOM;BYDATE=20260205,20260210"
    /\ store["t1"].repeatFirstDate = "2026-02-05T05:00:00.000+0000"

\* C17: whenever specific_dates is supplied together with repeat_flag (the
\* empty list included), the task sent has the ERULE built from
\* specific_dates as its repeatFlag, not the supplied repeat_flag, and the
\* supplied repeat_from is ignored (repeatFrom is "0").
C17_SpecificDatesTakePrecedence ==
    (call.tool \in RecurrenceTools /\ call.writes # <<>>
        /\ {"specific_dates", "repeat_flag"} \subseteq call.args.supplied) =>
        /\ DictGet(SentTask, "repeatFlag", None) = ExpectedErule(call.args.specific_dates)
        /\ DictGet(SentTask, "repeatFlag", None) # call.args.repeat_flag
        /\ DictGet(SentTask, "repeatFrom", "0") = "0"

-----------------------------------------------------------------------------
(***************************************************************************)
(* Properties of the dotenv fallback.                                      *)
(***************************************************************************)

\* C18: across a startup that ends serving, every key that the process
\* environment and the dotenv file both define, with different values, keeps
\* the environment's value; and when the three OAuth variables are all set in
\* the environment, the dotenv file changes nothing at all.
C18_EnvironmentWinsOverDotenv ==
    [][(phase = "boot" /\ phase' = "serving") =>
          /\ \A k \in EnvKeys :
                (env[k] # None /\ dotenvFile.vars[k] # None /\ env[k] # dotenvFile.vars[k]) =>
                    env'[k] = env[k]
          /\ ~EnvIncomplete(env) => env' = env]_vars

-----------------------------------------------------------------------------
(***************************************************************************)
(* Properties of the cloud token cache.                                    *)
(***************************************************************************)

\* The lifetime the blob states (the default when it states none), and the
\* times at which the process writes the cache.
BlobExpiresIn ==
    LET j == JsonLoads(env["TICKTICK_OAUTH_TOKEN"])
    IN  IF j.expires_in = -1 THEN DEFAULT_EXPIRES_IN ELSE j.expires_in
WriteTimes == {bootTime, bootTime + 5}

\* C19: once serving with TICKTICK_OAUTH_TOKEN present, the deployment mode is
\* cloud and the unofficial token cache path is /tmp/.token-oauth; when the
\* blob is valid JSON the file there exists and its expire_time is a write
\* time plus the blob's expires_in, after startup and after every later
\* initialisation of the unofficial client.
C19_CloudCacheKeepsBlobExpiry ==
    (phase = "serving" /\ Truthy(env["TICKTICK_OAUTH_TOKEN"])) =>
        /\ IS_CLOUD_DEPLOYMENT
        /\ UNOFFICIAL_TOKEN_CACHE_PATH = TMP_TOKEN_OAUTH
        /\ ~oauthCacheFile[HOME_TOKEN_OAUTH].exists
        /\ JsonLoads(env["TICKTICK_OAUTH_TOKEN"]).ok =>
              /\ oauthCacheFile[TMP_TOKEN_OAUTH].exists
              /\ oauthCacheFile[TMP_TOKEN_OAUTH].expire_time \in {t + BlobExpiresIn : t \in WriteTimes}

\* The same, restricted to the state startup leaves, before any unofficial
\* client has been constructed.
CloudCacheAfterStartup ==
    (phase = "serving" /\ Truthy(env["TICKTICK_OAUTH_TOKEN"]) /\ uclients = <<>>) =>
        /\ IS_CLOUD_DEPLOYMENT
        /\ UNOFFICIAL_TOKEN_CACHE_PATH = TMP_TOKEN_OAUTH
        /\ JsonLoads(env["TICKTICK_OAUTH_TOKEN"]).ok =>
              oauthCacheFile[TMP_TOKEN_OAUTH].expire_time = bootTime + BlobExpiresIn

-----------------------------------------------------------------------------
(***************************************************************************)
(* Properties of the official tools without an access token.               *)
(***************************************************************************)

\* A step in which one of the official tools runs.
OfficialToolRuns ==
    /\ call'.n = call.n + 1
    /\ call'.tool \in {"ticktick_complete_task", "ticktick_get_inbox_tasks"}

\* C20: an official tool that runs while ACCESS_TOKEN is empty returns exactly
\* {"error": "Not authenticated. Please complete OAuth flow at /oauth/start"},
\* constructs no session, sends no request and changes nothing at the vendor,
\* and the process keeps serving; one that runs once ACCESS_TOKEN is set, by
\* startup or by a later save_tokens, constructs its session and does not
\* return that error.
C20_NotAuthenticatedUntilTokensSaved ==
    [][OfficialToolRuns =>
          IF ~Truthy(ACCESS_TOKEN)
          THEN /\ call'.result = NOT_AUTHENTICATED
               /\ call'.writes = <<>>
               /\ _client' = _client /\ oclients' = oclients /\ _client = 0
               /\ store' = store
               /\ phase' = "serving" /\ exitCode' = exitCode
          ELSE /\ call'.result # NOT_AUTHENTICATED
               /\ _client' # 0
               /\ oclients'[_client'].access_token = ACCESS_TOKEN
               /\ phase' = "serving"]_vars

\* C20, its case: the process started without a token, save_tokens stored
\* one, and a tool run after that completed the task at the vendor.
C20_Witness ==
    /\ env["TICKTICK_ACCESS_TOKEN"] = None
    /\ ACCESS_TOKEN = "tokD"
    /\ call.tool = "ticktick_complete_task" /\ call.ret = "success"
    /\ store["t1"].status = 2

-----------------------------------------------------------------------------
(***************************************************************************)
(* Properties of the OAuth callback.                                       *)
(***************************************************************************)

\* The callback ran in this step and did not obtain a token: the code was
\* missing, or the exchange failed or was answered without access_token.
CallbackFails ==
    /\ call'.n = call.n + 1
    /\ call'.tool = "oauth_callback"
    /\ ~TokenGranted(call'.args.code, call'.args.answer)

\* C21: whenever the callback runs without a code, or the exchange is
\* answered without access_token, with a body that is not JSON, or not at all,
\* the route returns a JSON response with a 4xx status and an "error" key (no
\* exception leaves it), and ACCESS_TOKEN, the token cache file and the
\* official session are unchanged.
C21_CallbackFailureIsStructured ==
    [][CallbackFails =>
          /\ DOMAIN call'.result = {"status_code", "content"}
          /\ call'.result.status_code \in 400 .. 499
          /\ "error" \in DOMAIN call'.result.content
          /\ ACCESS_TOKEN' = ACCESS_TOKEN
          /\ tokenCacheFile' = tokenCacheFile
          /\ _client' = _client /\ oclients' = oclients]_vars

\* The part of C21 about what a failed callback leaves alone.
CallbackFailureChangesNothing ==
    [][CallbackFails =>
          /\ ACCESS_TOKEN' = ACCESS_TOKEN
          /\ tokenCacheFile' = tokenCacheFile
          /\ _client' = _client /\ oclients' = oclients]_vars

-----------------------------------------------------------------------------
(***************************************************************************)
(* Properties of the request count.                                        *)
(***************************************************************************)

SingleRequestTools == {"ticktick_create_task", "ticktick_complete_task"} \cup ClientMethods

\* C22: the last invocation of a tool or client method that makes one
\* request has sent it at most once, whatever the answer (error status, no
\* answer); an official tool that got past the client lookup has sent it
\* exactly once; and no step adds more than one task at the vendor, so a
\* create that failed has reached the vendor at most once.
C22_NoRequestIsRetried ==
    /\ [](call.tool \in SingleRequestTools =>
            /\ Len(call.writes) <= 1
            /\ (call.tool \in {"ticktick_create_task", "ticktick_complete_task"}
                   /\ call.ret # "error_not_authenticated") => Len(call.writes) = 1)
    /\ [][Cardinality(DOMAIN store') <= Cardinality(DOMAIN store) + 1]_vars

\* C22, its case: a create whose answer was lost returned an error, sent one
\* request, and the vendor holds the one task that request created.
C22_Witness ==
    /\ call.tool = "ticktick_create_task" /\ call.n = 1
    /\ ~call.args.answer.arrived /\ call.args.processed
    /\ call.ret = "error" /\ call.result.status_code = 0
    /\ Len(call.writes) = 1
    /\ DOMAIN store = TaskIds \cup ProjectIds \cup {"n1"}
    /\ store["n1"].title = "Pack bags"

-----------------------------------------------------------------------------
(***************************************************************************)
(* Properties of save_tokens and of the configuration after startup.       *)
(***************************************************************************)

\* What save_tokens does to the session and to ACCESS_TOKEN, and what no
\* step does to a client object that is still referenced.
SessionReplacedWholesale ==
    /\ save_tokens =>
          /\ ACCESS_TOKEN' \in Tokens
          /\ _client' # 0 /\ _client' \notin LiveOfficial
          /\ oclients'[_client'] = NewTickTickClient(ACCESS_TOKEN', USER_ID)
    /\ \A p \in Procs :
          (co[p].pc = "official" /\ co'[p].pc = "official") =>
              /\ co'[p].obj = co[p].obj
              /\ oclients'[co[p].obj] = oclients[co[p].obj]
    /\ (_client # 0 /\ _client' = _client) => oclients'[_client] = oclients[_client]
    /\ \A p \in Procs :
          (co[p].pc = "idle" /\ co'[p].pc = "official") =>
              oclients'[co'[p].obj].access_token = ACCESS_TOKEN

BlobToken == IF env["TICKTICK_OAUTH_TOKEN"] = "json:tokB+100" THEN "tokB" ELSE None
TokenByPriority ==
    IF Truthy(env["TICKTICK_ACCESS_TOKEN"]) THEN env["TICKTICK_ACCESS_TOKEN"]
    ELSE IF Truthy(BlobToken) THEN BlobToken
    ELSE IF tokenCacheFile.exists /\ tokenCacheFile.ok THEN tokenCacheFile.access_token
    ELSE None

\* C24: once startup has run with the three OAuth values present, the process
\* is serving (no blob or cache content fails it) and ACCESS_TOKEN is the
\* direct variable if set, else the blob's access_token if the blob holds
\* one, else the cache file's if the file parses, else none.
C24_TokenResolvedByPriority ==
    (phase # "boot" /\ \A k \in OAuthKeys : Truthy(env[k])) =>
        /\ phase = "serving"
        /\ ACCESS_TOKEN = TokenByPriority

\* The same for every blob that is absent, a JSON object, or not JSON.
TokenPriorityForObjectBlobs ==
    (phase # "boot" /\ (\A k \in OAuthKeys : Truthy(env[k])) /\ env["TICKTICK_OAUTH_TOKEN"] # "json:[1]") =>
        /\ phase = "serving"
        /\ ACCESS_TOKEN = TokenByPriority

\* C25: once serving, no step changes CLIENT_ID, CLIENT_SECRET, REDIRECT_URI,
\* USERNAME, PASSWORD, USER_ID, IS_CLOUD_DEPLOYMENT or the unofficial token
\* cache path, and a step that changes ACCESS_TOKEN is a save_tokens step.
C25_ConfigImmutableAfterStartup ==
    [][phase = "serving" =>
          /\ CLIENT_ID' = CLIENT_ID /\ CLIENT_SECRET' = CLIENT_SECRET
          /\ REDIRECT_URI' = REDIRECT_URI
          /\ USERNAME' = USERNAME /\ PASSWORD' = PASSWORD /\ USER_ID' = USER_ID
          /\ IS_CLOUD_DEPLOYMENT' = IS_CLOUD_DEPLOYMENT
          /\ UNOFFICIAL_TOKEN_CACHE_PATH' = UNOFFICIAL_TOKEN_CACHE_PATH
          /\ ACCESS_TOKEN' # ACCESS_TOKEN => save_tokens]_vars

\* C25, its case: in a cloud deployment an unofficial client has logged in,
\* save_tokens has replaced the access token and an official tool has run
\* with it; the configuration is still what startup read.
C25_Witness ==
    /\ phase = "serving"
    /\ IS_CLOUD_DEPLOYMENT /\ UNOFFICIAL_TOKEN_CACHE_PATH = TMP_TOKEN_OAUTH
    /\ ACCESS_TOKEN = "tokD"
    /\ \E i \in DOMAIN uclients : uclients[i].authenticated
    /\ call.tool = "ticktick_complete_task" /\ call.ret = "success"
    /\ USER_ID = env["TICKTICK_USER_ID"] /\ USERNAME = env["TICKTICK_USERNAME"]

-----------------------------------------------------------------------------
(***************************************************************************)
(* Properties of the unofficial session once authenticated.                *)
(***************************************************************************)

\* C26: from the moment the global unofficial client is authenticated (as it
\* is whenever get_unofficial_client has returned an authenticated client),
\* no step replaces it, constructs a client, starts a login or makes it
\* unauthenticated, and every invocation that starts is given that instance
\* and gets past the client lookup.
C26_AuthenticatedClientIsKept ==
    [][IsAuthenticated(_unofficial_client) =>
          /\ _unofficial_client' = _unofficial_client
          /\ Len(uclients') = Len(uclients)
          /\ uclients'[_unofficial_client] = uclients[_unofficial_client]
          /\ \A i \in DOMAIN uclients : uclients[i].authenticated => uclients'[i].authenticated
          /\ \A p \in Procs :
                (co[p].pc = "idle" /\ co'[p] # co[p]) =>
                    /\ co'[p].pc = "idle"
                    /\ co'[p].obj = _unofficial_client
                    /\ co'[p].ret \in {"success", "error_request_failed"}]_vars

\* C26, its case: both coroutines were given the same authenticated client,
\* which was logged in once, and the second got it without a construction.
C26_Witness ==
    /\ IsAuthenticated(_unofficial_client)
    /\ Len(uclients) = 1 /\ uclients[1].attempts = 1
    /\ \A p \in Procs : co[p].pc = "idle" /\ co[p].obj = _unofficial_client /\ co[p].sent

-----------------------------------------------------------------------------
(***************************************************************************)
(* Properties of ticktick_convert_task_to_checklist_item.                  *)
(***************************************************************************)

FailedAnswers == {"http_error", "network_error"}
Converted == call.tool = "ticktick_convert_task_to_checklist_item"
\* The parent's last item carries the title the child had when fetched.
ParentHoldsChild ==
    /\ ItemsOf(store[call.args.parent]) # <<>>
    /\ ItemsOf(store[call.args.parent])[Len(ItemsOf(store[call.args.parent]))].title = call.fetched.title

-----------------------------------------------------------------------------
(***************************************************************************)
(* Properties of unofficial_make_subtask and unofficial_remove_subtask.    *)
(***************************************************************************)

SubtaskTools == {"unofficial_make_subtask", "unofficial_remove_subtask"}
BothInOneProject ==
    /\ call.found
    /\ call.args.parent \in TaskIds
    /\ DictGet(call.fetched, "projectId", None) = DictGet(store[call.args.parent], "projectId", None)

\* C28: a subtask tool sends at most one request, to the taskParent endpoint,
\* with one entry, and no task is ever removed from the vendor;
\* unofficial_remove_subtask sends {parentId null, projectId, taskId child}
\* and sends nothing, returning an error, when the child is not found or has
\* no parentId; unofficial_make_subtask sends {parentId parent, projectId,
\* taskId child} exactly when both tasks exist in one project, and otherwise
\* returns an error and sends nothing.
C28_SubtasksOnlyThroughTaskParent ==
    /\ [](call.tool \in SubtaskTools =>
            /\ Len(call.writes) <= 1
            /\ \A i \in DOMAIN call.writes :
                  /\ call.writes[i].endpoint = BATCH_TASK_PARENT
                  /\ call.writes[i].body.taskId = call.task
                  /\ call.writes[i].body.projectId = call.fetched.projectId
            /\ call.writes = <<>> => call.ret \in
                  {"error_not_found", "error_not_subtask", "error_parent_not_found", "error_other_project"}
            /\ call.tool = "unofficial_remove_subtask" =>
                  /\ call.writes # <<>> <=> (call.found /\ Truthy(DictGet(call.fetched, "parentId", None)))
                  /\ \A i \in DOMAIN call.writes : call.writes[i].body.parentId = None
            /\ call.tool = "unofficial_make_subtask" =>
                  /\ call.writes # <<>> <=> BothInOneProject
                  /\ \A i \in DOMAIN call.writes : call.writes[i].body.parentId = call.args.parent)
    /\ [][/\ DOMAIN store' = DOMAIN store
          /\ call'.writes = <<>> => store' = store]_vars

\* C28, its case: a subtask was un-nested: one entry with a null parent was
\* sent, and both tasks still exist, no longer related.
C28_Witness ==
    /\ call.tool = "unofficial_remove_subtask" /\ call.ret = "success"
    /\ Len(call.writes) = 1 /\ call.writes[1].body.parentId = None
    /\ call.fetched.parentId = "t2"
    /\ "parentId" \notin DOMAIN store["t1"]
    /\ "t1" \notin DictGet(store["t2"], "childIds", {})

\* C28, the refusal: the tasks are in different projects, nothing was sent.
OtherProjectRefused ==
    call.tool = "unofficial_make_subtask" /\ call.ret = "error_other_project" /\ call.writes = <<>>

-----------------------------------------------------------------------------
(***************************************************************************)
(* Properties of the checklist-item tools.                                 *)
(***************************************************************************)

RemoveItemTools == {"ticktick_remove_checklist_item", "unofficial_remove_checklist_item"}
Existing == ItemsOf(call.fetched)
SentItems == call.writes[1].body.items
IdOf(item) == DictGet(item, "id", 0)
Kept == {i \in DOMAIN Existing : IdOf(Existing[i]) # call.args.item_id}
NthKept(j) == CHOOSE i \in Kept : Cardinality({k \in Kept : k <= i}) = j
OnlyTitleAndStatusDiffer(a, b) ==
    /\ DOMAIN a = DOMAIN b
    /\ \A f \in DOMAIN a \ {"title", "status"} : a[f] = b[f]

\* C29: a checklist-item tool sends at most one update and changes nothing
\* of a task but its items: add sends the fetched items in their order and
\* then {title, status 0}; remove sends the fetched items whose id is not
\* item_id, in their order; update sends the fetched items with the title
\* and status given set on the items whose id is item_id and nothing else
\* changed; update and remove send nothing and return an error when the
\* fetched task has no items or no item of that id.
C29_ItemsChangeOnlyAsRequested ==
    /\ [](call.tool \in ChecklistTools \cup RemoveItemTools =>
            /\ Len(call.writes) <= 1
            /\ (call.tool \in ChecklistTools /\ call.writes # <<>>) =>
                  DOMAIN call.writes[1].body = {"id", "projectId", "items"}
            /\ (call.tool = "unofficial_remove_checklist_item" /\ call.writes # <<>>) =>
                  call.writes[1].body = DictSet(call.fetched, "items", SentItems)
            /\ (call.tool = "ticktick_add_checklist_item" /\ call.writes # <<>>) =>
                  /\ Len(SentItems) = Len(Existing) + 1
                  /\ \A i \in DOMAIN Existing : SentItems[i] = Existing[i]
                  /\ SentItems[Len(SentItems)] = [title |-> call.args.title, status |-> 0]
            /\ (call.tool \in RemoveItemTools /\ call.writes # <<>>) =>
                  /\ Len(SentItems) = Cardinality(Kept)
                  /\ Len(SentItems) < Len(Existing)
                  /\ \A j \in DOMAIN SentItems : SentItems[j] = Existing[NthKept(j)]
            /\ (call.tool = "ticktick_update_checklist_item" /\ call.writes # <<>>) =>
                  /\ Len(SentItems) = Len(Existing)
                  /\ \A i \in DOMAIN Existing :
                        IF IdOf(Existing[i]) # call.args.item_id THEN SentItems[i] = Existing[i]
                        ELSE /\ OnlyTitleAndStatusDiffer(SentItems[i], Existing[i])
                             /\ SentItems[i].title =
                                  IF Supplied(call.args, "title") THEN call.args.title ELSE Existing[i].title
                             /\ SentItems[i].status =
                                  IF Supplied(call.args, "status") THEN call.args.status ELSE Existing[i].status
            /\ (call.tool # "ticktick_add_checklist_item" /\ call.found
                  /\ ~HasItem(Existing, call.args.item_id)) =>
                  /\ call.writes = <<>>
                  /\ call.ret \in {"error_no_items", "error_item_not_found"})
    /\ [][\A t \in DOMAIN store : DictDel(store'[t], "items") = DictDel(store[t], "items")]_vars

\* C29, its case: ticktick_update_checklist_item renamed the one item of the
\* task and left its status and id alone.
C29_Witness ==
    /\ call.tool = "ticktick_update_checklist_item" /\ call.ret = "success"
    /\ call.args.supplied = {"title"} /\ Existing = <<Item(1, "book")>>
    /\ SentItems = <<Item(1, "call")>>
    /\ store["t1"].items = <<Item(1, "call")>>

\* The refusal: ticktick_remove_checklist_item found no item of that id.
RemoveRefused ==
    /\ call.tool = "ticktick_remove_checklist_item" /\ call.ret = "error_item_not_found"
    /\ Existing # <<>> /\ call.writes = <<>>

\* ---- overlapping invocations

\* The title of the item an update or remove was aimed at, in its own fetch.
TargetTitles(r) ==
    {ItemsOf(r.fetched)[i].title :
        i \in {k \in DOMAIN ItemsOf(r.fetched) : IdOf(ItemsOf(r.fetched)[k]) = r.args.item_id}}
\* The change asked of invocation r shows in the items.
Reflected(r, items) ==
    CASE r.tool = "ticktick_add_checklist_item" ->
           \E i \in DOMAIN items : items[i].title = r.args.title
      [] r.tool = "ticktick_remove_checklist_item" ->
           \A i \in DOMAIN items : items[i].title \notin TargetTitles(r)
      [] OTHER ->
           \E i \in DOMAIN items :
              /\ IdOf(items[i]) = r.args.item_id
              /\ Supplied(r.args, "title") => items[i].title = r.args.title
              /\ Supplied(r.args, "status") => items[i].status = r.args.status
\* Two invocations, both returned with success: two adds of different
\* titles, or an add and an update or remove of another item.
BothSucceeded ==
    /\ \A p \in Procs : co[p].pc = "returned" /\ co[p].ret = "success"
    /\ \E p \in Procs : co[p].tool = "ticktick_add_checklist_item"
    /\ \A p \in Procs : \A q \in Procs \ {p} :
          co[p].tool = "ticktick_add_checklist_item" =>
            IF co[q].tool = "ticktick_add_checklist_item" THEN co[q].args.title # co[p].args.title
            ELSE co[p].args.title \notin TargetTitles(co[q])

\* C30: when two checklist invocations on one task have both returned
\* success, the task's items show the change of each, whatever the order of
\* their get-task and update-task requests.
C30_NoLostUpdate ==
    BothSucceeded => \A p \in Procs : Reflected(co[p], ItemsOf(store["t1"]))

\* What does hold: the items show both changes when the two invocations did
\* not overlap, that is when one returned before the other fetched.
BothChangesKeptWithoutOverlap ==
    (BothSucceeded /\ \A p \in Procs : ~co[p].overlapped) =>
        \A p \in Procs : Reflected(co[p], ItemsOf(store["t1"]))

====
